---- MODULE Spec2Model ----
(***************************************************************************)
(* H.E.M.A. pipeline factory: pipe-spec validation, decomposition into     *)
(* manufacturing steps, the orchestrator (planner) loop, the worker loop   *)
(* and the factory controller the worker tools act on.                     *)
(*                                                                         *)
(* Conventions                                                             *)
(*  - lengths are integers in millimetres (1.0 m = 1000); diameters are    *)
(*    drawn from even values so that diameter / 2 is exact;                *)
(*  - an optional numeric field that is absent is 0: the code reads        *)
(*    optional fields only through `x || y` and `&& x`, which treat 0 and  *)
(*    undefined alike;                                                     *)
(*  - a step id `step-N` is the number N;                                  *)
(*  - texts are TLA+ strings, `includes` is a substring test.              *)
(***************************************************************************)
EXTENDS Integers, Sequences, FiniteSets, TLC

VARIABLES
    spec,          \* PipeSpecForm state {totalLength, initialDiameter, segments}
    validation,    \* result of validatePipeSpec(spec) for the current render
    filled,        \* result of the last autoFillSegments call
    steps,         \* ManufacturingStep[] (shared by the view and the factory)
    stepCounter,   \* pipeBreakdown.ts module variable
    called,        \* the pure functions applied to the input so far
    \* OrchestratorView / PipeSpecForm
    isBuilding,    \* OrchestratorView state isBuilding (the form's `disabled`)
    order,         \* <<spec>> last passed to handleBuildPipe, <<>> if none
    submit,        \* outcome of handleSubmit on the form as it is: none (not
                   \* submitted since the last edit), accepted, rejected
    \* planner loop: handleOrchestratorResponse / executeOrchestratorToolCalls
    opc,           \* idle, await (a response), calls (in a batch), worker
    oreq,          \* body of the last request: order, continue, toolResults
    orequests,     \* requests sent to /api/orchestrator by this build
    olen,          \* data.calls.length of the batch being executed
    odone,         \* results.length in executeOrchestratorToolCalls
    olast,         \* the last element of `results`
    ostep,         \* relatedStepId of the dispatchWorkerTask being executed
    \* worker loop: runWorkerTask
    wpc,           \* none, await (a response), calls (in a batch), returned
    workerId,      \* argument of runWorkerTask
    iteration,     \* the loop variable of runWorkerTask
    wreq,          \* body of the last request: task, continue, toolResults
    wrequests,     \* requests sent to /api/worker by this session
    wlen,          \* data.calls.length of the batch being executed
    wdone,         \* toolResults.length of the batch
    wlast,         \* the last element of toolResults
    wend,          \* how the session ended: complete, problem, text, error,
                   \* thrown, timeout ("" while it runs)
    wtext,         \* the text the session ended with, as the service or the
                   \* exception gave it
    wresult,       \* the string runWorkerTask returned
    wreset,        \* /api/worker/reset was requested for the session
    wskipped,      \* calls of the last batch the session never reached
    \* FactoryController, WorkerRobot
    workpiece,     \* FactoryController.workpiece: a mesh (1, 2, ..) or 0 (null)
    meshCount,     \* meshes created by createNewWorkpiece so far
    carriedMesh,   \* WorkerRobot.carriedMesh of each worker, 0 for null
    workerStatus,  \* WorkerRobot.status of each worker
    nextCradleIndex, \* FactoryController.nextCradleIndex
    storedPipes,   \* FactoryController.storedPipes
    machineParams, \* FactoryController.params {roller, press}
    geometry,      \* geometry[m]: the geometry of mesh m
    configured,    \* history: the machines whose set...Params has been
                   \* called since the controller was constructed
    \* index.ts: the server
    sessions,      \* the Map sessions: session id -> GeminiSession
    orchestratorSessions, \* the Map orchestratorSessions
    http,          \* the last request handled and its response
    \* FactoryController.ts: executeAllSteps
    isRunning,     \* FactoryController.isRunning
    epc,           \* the phase executeAllSteps is in: idle (no call), fetch,
                   \* cut, bend, press, weld, store, sections
    segIdx,        \* the loop variable segIdx (a segmentIndex)
    sectionIdx     \* position in weldSectionsSteps of the step under way

pipeVars == <<spec, validation, filled, steps, stepCounter, called>>

viewVars == <<isBuilding, order, submit>>

plannerVars == <<opc, oreq, orequests, olen, odone, olast, ostep>>

workerVars ==
    <<wpc, workerId, iteration, wreq, wrequests, wlen, wdone, wlast,
      wend, wtext, wresult, wreset, wskipped>>

machineVars == <<machineParams, geometry, configured>>

factoryVars ==
    <<machineVars, workpiece, meshCount, carriedMesh, workerStatus,
      nextCradleIndex,
      storedPipes>>

serverVars == <<sessions, orchestratorSessions, http>>

executeVars == <<isRunning, epc, segIdx, sectionIdx>>

vars ==
    <<pipeVars, viewVars, plannerVars, workerVars, factoryVars, serverVars,
      executeVars>>

-----------------------------------------------------------------------------
(* types.ts *)

CONSTRAINTS ==
    [ rollerDiameterMin       |-> 300,
      rollerDiameterMax       |-> 2000,
      rollerHeightMin         |-> 1000,
      rollerHeightMax         |-> 5000,
      frustrumTopRadiusMin    |-> 200,
      frustrumTopRadiusMax    |-> 1000,
      frustrumBottomRadiusMin |-> 300,
      frustrumBottomRadiusMax |-> 1200,
      frustrumHeightMin       |-> 300,
      frustrumHeightMax       |-> 1500,
      minSegmentHeight        |-> 1000,
      minTotalLength          |-> 1000,
      maxTotalLength          |-> 50000 ]

\* PipeSegment: {type, height, diameter?, topDiameter?, bottomDiameter?}
Cylinder(h, d) ==
    [type |-> "cylinder", height |-> h, diameter |-> d,
     topDiameter |-> 0, bottomDiameter |-> 0]

Frustrum(h, td, bd) ==
    [type |-> "frustrum", height |-> h, diameter |-> 0,
     topDiameter |-> td, bottomDiameter |-> bd]

PipeSpec(len, dia, segs) ==
    [totalLength |-> len, initialDiameter |-> dia, segments |-> segs]

\* JavaScript `a || b` on numbers
OrElse(a, b) == IF a # 0 THEN a ELSE b

Min(a, b) == IF a <= b THEN a ELSE b

RECURSIVE SumHeights(_)
SumHeights(segs) ==
    IF segs = <<>> THEN 0 ELSE Head(segs).height + SumHeights(Tail(segs))

-----------------------------------------------------------------------------
(* pipeValidator.ts: validatePipeSpec *)

Issue(code, segment) == [code |-> code, segment |-> segment]

\* lines 14-20
TotalLengthErrors(s) ==
    IF s.totalLength <= 0
    THEN <<Issue("total_length_positive", 0)>>
    ELSE IF s.totalLength < CONSTRAINTS.minTotalLength
    THEN <<Issue("total_length_min", 0)>>
    ELSE IF s.totalLength > CONSTRAINTS.maxTotalLength
    THEN <<Issue("total_length_max", 0)>>
    ELSE <<>>

\* lines 22-28
InitialDiameterErrors(s) ==
    IF s.initialDiameter <= 0
    THEN <<Issue("initial_diameter_required", 0)>>
    ELSE IF s.initialDiameter < CONSTRAINTS.rollerDiameterMin
    THEN <<Issue("initial_diameter_min", 0)>>
    ELSE IF s.initialDiameter > CONSTRAINTS.rollerDiameterMax
    THEN <<Issue("initial_diameter_max", 0)>>
    ELSE <<>>

\* variant: the lower height check written with <=
CylinderErrorsExclusive(seg, label) ==
    (IF seg.height <= CONSTRAINTS.minSegmentHeight
     THEN <<Issue("cylinder_height_min", label)>> ELSE <<>>)
    \o
    (IF seg.height > CONSTRAINTS.rollerHeightMax
     THEN <<Issue("cylinder_height_max", label)>> ELSE <<>>)

\* lines 44-50: errors of one cylinder segment
CylinderErrors(seg, label) ==
    (IF seg.height < CONSTRAINTS.minSegmentHeight
     THEN <<Issue("cylinder_height_min", label)>> ELSE <<>>)
    \o
    (IF seg.height > CONSTRAINTS.rollerHeightMax
     THEN <<Issue("cylinder_height_max", label)>> ELSE <<>>)

\* lines 55-69: errors of one frustrum segment entered at runningDiameter
FrustrumErrors(seg, label, runningDiameter) ==
    LET topR    == runningDiameter \div 2
        bottomR == OrElse(seg.bottomDiameter, runningDiameter) \div 2
    IN  (IF topR < CONSTRAINTS.frustrumTopRadiusMin
            \/ topR > CONSTRAINTS.frustrumTopRadiusMax
         THEN <<Issue("top_radius_range", label)>> ELSE <<>>)
        \o
        (IF bottomR < CONSTRAINTS.frustrumBottomRadiusMin
            \/ bottomR > CONSTRAINTS.frustrumBottomRadiusMax
         THEN <<Issue("bottom_radius_range", label)>> ELSE <<>>)
        \o
        (IF seg.height < CONSTRAINTS.frustrumHeightMin
         THEN <<Issue("frustrum_height_min", label)>> ELSE <<>>)
        \o
        (IF seg.height > CONSTRAINTS.frustrumHeightMax
         THEN <<Issue("frustrum_height_max", label)>> ELSE <<>>)

\* lines 38-75: the segment loop; acc carries runningDiameter, usedLength,
\* the errors and the segments as the loop leaves them (it assigns
\* seg.diameter / seg.topDiameter in place).
RECURSIVE ValidateSegments(_, _, _)
ValidateSegments(segs, i, acc) ==
    IF i > Len(segs) THEN acc
    ELSE LET seg == segs[i] IN
         IF seg.type = "cylinder"
         THEN ValidateSegments(segs, i + 1,
                [runningDiameter |-> acc.runningDiameter,
                 usedLength      |-> acc.usedLength + seg.height,
                 errors          |-> acc.errors \o CylinderErrors(seg, i),
                 segments        |-> Append(acc.segments,
                                       [seg EXCEPT !.diameter = acc.runningDiameter])])
         ELSE ValidateSegments(segs, i + 1,
                [runningDiameter |-> OrElse(seg.bottomDiameter, acc.runningDiameter),
                 usedLength      |-> acc.usedLength + seg.height,
                 errors          |-> acc.errors
                                       \o FrustrumErrors(seg, i, acc.runningDiameter),
                 segments        |-> Append(acc.segments,
                                       [seg EXCEPT !.topDiameter = acc.runningDiameter])])

\* lines 30-75: what the segment loop leaves behind
SegmentPass(s) ==
    ValidateSegments(s.segments, 1,
        [runningDiameter |-> s.initialDiameter, usedLength |-> 0,
         errors |-> TotalLengthErrors(s) \o InitialDiameterErrors(s),
         segments |-> <<>>])

\* lines 9-98: the ValidationResult returned
validatePipeSpec(s) ==
    LET errors0 == TotalLengthErrors(s) \o InitialDiameterErrors(s) IN
    IF Len(errors0) > 0 /\ Len(s.segments) = 0
    THEN [valid |-> FALSE, errors |-> errors0, warnings |-> <<>>]
    ELSE
      LET acc == SegmentPass(s)
          errors1 == acc.errors \o
                     (IF s.totalLength > 0 /\ acc.usedLength > s.totalLength
                      THEN <<Issue("segments_exceed_length", 0)>> ELSE <<>>)
          remainingLength == s.totalLength - acc.usedLength
          warnings ==
              (IF remainingLength > 0
                  /\ remainingLength < CONSTRAINTS.minSegmentHeight
               THEN <<Issue("remaining_below_min_segment", 0)>> ELSE <<>>)
              \o
              (IF Len(s.segments) = 0
                  /\ s.totalLength > CONSTRAINTS.rollerHeightMax
               THEN <<Issue("auto_split", 0)>> ELSE <<>>)
      IN [valid |-> Len(errors1) = 0, errors |-> errors1,
          warnings |-> warnings]

\* lines 51 and 71: the spec as validatePipeSpec leaves it, with
\* seg.diameter / seg.topDiameter assigned (nothing is assigned when the
\* call returns at line 31, and then there are no segments)
validatedSpec(s) == [s EXCEPT !.segments = SegmentPass(s).segments]

-----------------------------------------------------------------------------
(* pipeValidator.ts: autoFillSegments *)

\* lines 113-118: the running diameter at the end of the declared segments
RECURSIVE EndDiameter(_, _)
EndDiameter(segs, dia) ==
    IF segs = <<>> THEN dia
    ELSE LET seg == Head(segs) IN
         EndDiameter(Tail(segs),
             IF seg.type = "frustrum" /\ seg.bottomDiameter # 0
             THEN seg.bottomDiameter ELSE dia)

\* lines 123-127 and 137-141: the greedy fill loop
RECURSIVE FillCylinders(_, _, _)
FillCylinders(result, left, dia) ==
    IF left >= CONSTRAINTS.minSegmentHeight
    THEN LET h == Min(left, CONSTRAINTS.rollerHeightMax)
         IN  FillCylinders(Append(result, Cylinder(h, dia)), left - h, dia)
    ELSE result

\* variant: the remainder test written with >, so a remainder of exactly
\* minSegmentHeight is left unfilled
autoFillSegmentsStrict(s) ==
    IF Len(s.segments) > 0
    THEN LET usedLength == SumHeights(s.segments)
             remaining  == s.totalLength - usedLength
         IN  IF remaining > CONSTRAINTS.minSegmentHeight
             THEN FillCylinders(s.segments, remaining,
                                EndDiameter(s.segments, s.initialDiameter))
             ELSE s.segments
    ELSE FillCylinders(<<>>, s.totalLength, s.initialDiameter)

\* variant: the fill uses initialDiameter instead of the running diameter
autoFillSegmentsInitialDiameter(s) ==
    IF Len(s.segments) > 0
    THEN LET usedLength == SumHeights(s.segments)
             remaining  == s.totalLength - usedLength
         IN  IF remaining >= CONSTRAINTS.minSegmentHeight
             THEN FillCylinders(s.segments, remaining, s.initialDiameter)
             ELSE s.segments
    ELSE FillCylinders(<<>>, s.totalLength, s.initialDiameter)

\* lines 105-144
autoFillSegments(s) ==
    IF Len(s.segments) > 0
    THEN LET usedLength == SumHeights(s.segments)
             remaining  == s.totalLength - usedLength
         IN  IF remaining >= CONSTRAINTS.minSegmentHeight
             THEN FillCylinders(s.segments, remaining,
                                EndDiameter(s.segments, s.initialDiameter))
             ELSE s.segments
    ELSE FillCylinders(<<>>, s.totalLength, s.initialDiameter)

-----------------------------------------------------------------------------
(* pipeBreakdown.ts *)

\* Math.PI * x, with PI taken as 355/113
TimesPi(x) == (x * 355) \div 113

\* Math.sqrt, rounded down (mid * mid <= n, written without the product)
RECURSIVE SqrtBetween(_, _, _)
SqrtBetween(n, lo, hi) ==
    IF lo >= hi THEN lo
    ELSE LET mid == (lo + hi + 1) \div 2
         IN  IF mid <= n \div mid THEN SqrtBetween(n, mid, hi)
                               ELSE SqrtBetween(n, lo, mid - 1)

Sqrt(n) == SqrtBetween(n, 0, n)

NoWorker == 0 - 1

\* lines 6-22: the step made when stepCounter has just been incremented to
\* `counter`; the description text is not modelled.
makeStep(counter, machineId, action, params, segmentIndex) ==
    [id |-> counter, machineId |-> machineId, action |-> action,
     params |-> params, segmentIndex |-> segmentIndex,
     status |-> "pending", workerId |-> NoWorker]

\* lines 39-73: the four steps of cylinder segment i (0-based)
CylinderSteps(seg, i, counter, runningDiameter) ==
    LET diameter      == OrElse(seg.diameter, runningDiameter)
        circumference == TimesPi(diameter)
    IN << makeStep(counter + 1, "sheetStock", "fetch_sheet",
                   [width |-> circumference, height |-> seg.height], i),
          makeStep(counter + 2, "cutter", "cut_sheet",
                   [width |-> circumference, height |-> seg.height], i),
          makeStep(counter + 3, "roller", "bend_cylinder",
                   [diameter |-> diameter, height |-> seg.height], i),
          makeStep(counter + 4, "welder", "weld_seam",
                   [diameter |-> diameter, height |-> seg.height], i) >>

\* lines 75-117: the four steps of frustrum segment i (0-based)
FrustrumSteps(seg, i, counter, runningDiameter) ==
    LET topDia    == OrElse(seg.topDiameter, runningDiameter)
        bottomDia == OrElse(seg.bottomDiameter, runningDiameter)
        topR      == topDia \div 2
        bottomR   == bottomDia \div 2
        slantHeight == Sqrt(seg.height * seg.height
                            + (bottomR - topR) * (bottomR - topR))
        avgCircumference == TimesPi(topDia + bottomDia) \div 2
    IN << makeStep(counter + 1, "sheetStock", "fetch_sheet",
                   [width |-> avgCircumference, height |-> slantHeight], i),
          makeStep(counter + 2, "cutter", "cut_sheet",
                   [width |-> avgCircumference, height |-> slantHeight], i),
          makeStep(counter + 3, "press", "press_frustrum",
                   [topRadius |-> topR, bottomRadius |-> bottomR,
                    frustrumHeight |-> seg.height], i),
          makeStep(counter + 4, "welder", "weld_seam",
                   [topRadius |-> topR, bottomRadius |-> bottomR,
                    height |-> seg.height], i) >>

\* lines 36-119, written without `runningDiameter = bottomDia`
RECURSIVE SegmentStepsNoThreading(_, _, _, _)
SegmentStepsNoThreading(segments, i, acc, runningDiameter) ==
    IF i > Len(segments) THEN acc
    ELSE LET seg == segments[i] IN
         IF seg.type = "cylinder"
         THEN SegmentStepsNoThreading(segments, i + 1,
                  acc \o CylinderSteps(seg, i - 1, Len(acc), runningDiameter),
                  runningDiameter)
         ELSE IF seg.type = "frustrum"
         THEN SegmentStepsNoThreading(segments, i + 1,
                  acc \o FrustrumSteps(seg, i - 1, Len(acc), runningDiameter),
                  runningDiameter)
         ELSE SegmentStepsNoThreading(segments, i + 1, acc, runningDiameter)

\* lines 36-119: the segment loop from segment i (1-based here) on
RECURSIVE SegmentSteps(_, _, _, _)
SegmentSteps(segments, i, acc, runningDiameter) ==
    IF i > Len(segments) THEN acc
    ELSE LET seg == segments[i] IN
         IF seg.type = "cylinder"
         THEN SegmentSteps(segments, i + 1,
                  acc \o CylinderSteps(seg, i - 1, Len(acc), runningDiameter),
                  runningDiameter)
         ELSE IF seg.type = "frustrum"
         THEN SegmentSteps(segments, i + 1,
                  acc \o FrustrumSteps(seg, i - 1, Len(acc), runningDiameter),
                  OrElse(seg.bottomDiameter, runningDiameter))
         ELSE SegmentSteps(segments, i + 1, acc, runningDiameter)

\* lines 121-131, written with sections i and i + 1
RECURSIVE SectionStepsOneBased(_, _, _)
SectionStepsOneBased(n, i, acc) ==
    IF i >= n THEN acc
    ELSE SectionStepsOneBased(n, i + 1,
             Append(acc, makeStep(Len(acc) + 1, "welder", "weld_sections",
                                  [sectionA |-> i, sectionB |-> i + 1], i)))

\* lines 121-131: the section welds, i = 1 .. segments.length - 1
RECURSIVE SectionSteps(_, _, _)
SectionSteps(n, i, acc) ==
    IF i >= n THEN acc
    ELSE SectionSteps(n, i + 1,
             Append(acc, makeStep(Len(acc) + 1, "welder", "weld_sections",
                                  [sectionA |-> i - 1, sectionB |-> i], i)))

\* variant: the section welds are left out
breakdownPipeSpecNoSections(s) ==
    SegmentSteps(autoFillSegments(s), 1, <<>>, s.initialDiameter)

\* lines 29-134; stepCounter is reset to 0 on entry, so the counter equals
\* the number of steps pushed so far.
breakdownPipeSpec(s) ==
    LET segments == autoFillSegments(s)
        perSegment == SegmentSteps(segments, 1, <<>>, s.initialDiameter)
    IN  IF Len(segments) > 1
        THEN SectionSteps(Len(segments), 1, perSegment)
        ELSE perSegment

-----------------------------------------------------------------------------
(* FactoryController (unnamed/part_002) and WorkerRobot (materials.ts): the *)
(* references the controller and the robots hold and the geometry of the    *)
(* meshes. The three.js scene graph (positions, parents) and the gestures'  *)
(* intermediate poses are not modelled; an operation is one step from its   *)
(* call to its result.                                                      *)

\* part_002 lines 53-57: one worker per machine (WORKER_NAMES, 0 to 4)
WorkerIds == 0..4

slotCount == 5

Includes(s, w) ==
    \E i \in 1..(Len(s) - Len(w) + 1) : SubSeq(s, i, i + Len(w) - 1) = w

\* part_002 lines 25-28
DEFAULT_PARAMS ==
    [roller |-> [diameter |-> 1000, height |-> 3000],
     press |-> [topRadius |-> 400, bottomRadius |-> 600,
                frustrumHeight |-> 800]]

\* createNewWorkpiece: new THREE.BoxGeometry(1.8, 0.04, 1.2)
BoxGeometry ==
    [type |-> "box", radiusTop |-> 0, radiusBottom |-> 0, height |-> 0,
     openEnded |-> FALSE]

\* new THREE.CylinderGeometry(radiusTop, radiusBottom, height, 32, 1,
\* openEnded)
CylinderGeometry(radiusTop, radiusBottom, height, openEnded) ==
    [type |-> "cylinder", radiusTop |-> radiusTop,
     radiusBottom |-> radiusBottom, height |-> height,
     openEnded |-> openEnded]

\* geometry.dispose()
DisposedGeometry ==
    [type |-> "disposed", radiusTop |-> 0, radiusBottom |-> 0, height |-> 0,
     openEnded |-> FALSE]

InitFactory ==
    /\ machineParams = DEFAULT_PARAMS
    /\ geometry = <<>>
    /\ configured = {}
    /\ workpiece = 0
    /\ meshCount = 0
    /\ carriedMesh = [w \in WorkerIds |-> 0]
    /\ workerStatus = [w \in WorkerIds |-> "idle"]
    /\ nextCradleIndex = 0
    /\ storedPipes = <<>>

\* WorkerRobot.attachWorkpiece through attachWorkpieceToWorker
attachWorkpieceToWorker(w) ==
    IF workpiece = 0 THEN carriedMesh ELSE [carriedMesh EXCEPT ![w] = workpiece]

\* WorkerRobot.detachWorkpiece through detachWorkpieceFromWorker
detachWorkpieceFromWorker(w) == [carriedMesh EXCEPT ![w] = 0]

\* moveWorkerToMachine: walkTo leaves the robot idle
moveWorkerToMachine(w) ==
    /\ workerStatus' = [workerStatus EXCEPT ![w] = "idle"]
    /\ UNCHANGED <<workpiece, meshCount, carriedMesh, nextCradleIndex,
                   storedPipes, machineVars>>

moveWorkerToMachineResult(w, machineId) ==
    "Worker " \o ToString(w) \o " arrived at " \o machineId

\* fetchSheet: pickUpGesture, createNewWorkpiece (which disposes of the
\* current workpiece and makes a new mesh), attachWorkpieceToWorker
fetchSheet(w) ==
    /\ workerStatus' = [workerStatus EXCEPT ![w] = "carrying"]
    /\ meshCount' = meshCount + 1
    /\ workpiece' = meshCount + 1
    /\ carriedMesh' = [carriedMesh EXCEPT ![w] = meshCount + 1]
    /\ geometry' = Append(IF workpiece # 0
                           THEN [geometry EXCEPT
                                    ![workpiece] = DisposedGeometry]
                           ELSE geometry,
                           BoxGeometry)
    /\ UNCHANGED <<nextCradleIndex, storedPipes, machineParams,
                   configured>>

fetchSheetResult == "Fresh sheet picked up from stock and attached for carrying"

\* pickUpFrom: pickUpGesture, attachWorkpieceToWorker
pickUpFrom(w) ==
    /\ workerStatus' = [workerStatus EXCEPT ![w] = "carrying"]
    /\ carriedMesh' = attachWorkpieceToWorker(w)
    /\ UNCHANGED <<workpiece, meshCount, nextCradleIndex, storedPipes,
                   machineVars>>

pickUpFromResult(machineId) == "Picked up workpiece from " \o machineId

\* carryAndPlace: detachWorkpieceFromWorker, placeWorkpieceAtMachine,
\* placeDownGesture, walkTo
carryAndPlace(w) ==
    /\ carriedMesh' = detachWorkpieceFromWorker(w)
    /\ workerStatus' = [workerStatus EXCEPT ![w] = "idle"]
    /\ UNCHANGED <<workpiece, meshCount, nextCradleIndex, storedPipes,
                   machineVars>>

carryAndPlaceResult(machineId) == "Workpiece placed at " \o machineId

\* storeInRackFromWorker: detachWorkpieceFromWorker, storeWorkpieceInRack
\* (which drops the reference even when no cradle is free), placeDownGesture
storeInRackFromWorker(w) ==
    /\ carriedMesh' = detachWorkpieceFromWorker(w)
    /\ workerStatus' = [workerStatus EXCEPT ![w] = "idle"]
    /\ IF workpiece # 0 /\ nextCradleIndex < slotCount
       THEN /\ storedPipes' = Append(storedPipes, workpiece)
            /\ nextCradleIndex' = nextCradleIndex + 1
       ELSE UNCHANGED <<storedPipes, nextCradleIndex>>
    /\ workpiece' = 0
    /\ UNCHANGED <<meshCount, machineVars>>

storeInRackFromWorkerResult == "Pipe segment stored in rack"

\* lines 165-171
setRollerParams(p) ==
    /\ machineParams' = [machineParams EXCEPT !.roller = p]
    /\ configured' = configured \cup {"roller"}
    /\ UNCHANGED <<geometry, workpiece, meshCount, carriedMesh, workerStatus,
                   nextCradleIndex, storedPipes>>

\* lines 173-179
setPressParams(p) ==
    /\ machineParams' = [machineParams EXCEPT !.press = p]
    /\ configured' = configured \cup {"press"}
    /\ UNCHANGED <<geometry, workpiece, meshCount, carriedMesh, workerStatus,
                   nextCradleIndex, storedPipes>>

\* lines 284-354: the geometry the machine gives the workpiece
Reshaped(machineId, old) ==
    CASE machineId = "roller" ->
            CylinderGeometry(machineParams.roller.diameter \div 2,
                             machineParams.roller.diameter \div 2,
                             Min(machineParams.roller.height \div 2, 1500), TRUE)
      [] machineId = "press" ->
            CylinderGeometry(machineParams.press.topRadius,
                             machineParams.press.bottomRadius,
                             Min(machineParams.press.frustrumHeight \div 2, 1500),
                             FALSE)
      [] machineId = "welder" /\ old.type = "cylinder" ->
            [old EXCEPT !.openEnded = FALSE]
      [] OTHER -> old

\* lines 284-354: the robot's operate gesture leaves it idle
operateMachineWithWorker(w, machineId) ==
    /\ workerStatus' = [workerStatus EXCEPT ![w] = "idle"]
    /\ geometry' = IF workpiece # 0
                   THEN [geometry EXCEPT
                            ![workpiece] = Reshaped(machineId, @)]
                   ELSE geometry
    /\ UNCHANGED <<machineParams, configured, workpiece, meshCount,
                   carriedMesh, nextCradleIndex, storedPipes>>

operateMachineWithWorkerResult(machineId) ==
    machineId \o " operation completed successfully"

-----------------------------------------------------------------------------
(* OrchestratorView.tsx: runWorkerTask. The reasoning service behind        *)
(* /api/worker is the environment: each response and each call of a batch   *)
(* is chosen when the loop reaches it. Of the `toolResults` of a batch the  *)
(* model keeps the length and the last element. The locals of runWorkerTask *)
(* are gone when it returns.                                                *)

WORKER_MAX_ITERATIONS == 20

NoResult == [name |-> "", response |-> ""]

InitWorker ==
    /\ wpc = "none"
    /\ workerId = NoWorker
    /\ iteration = 0
    /\ wreq = ""
    /\ wrequests = 0
    /\ wlen = 0
    /\ wdone = 0
    /\ wlast = NoResult
    /\ wend = ""
    /\ wtext = ""
    /\ wresult = ""
    /\ wreset = FALSE
    /\ wskipped = 0

\* no session is running
EndSession ==
    /\ wpc' = "none"
    /\ workerId' = NoWorker
    /\ iteration' = 0
    /\ wreq' = ""
    /\ wrequests' = 0
    /\ wlen' = 0
    /\ wdone' = 0
    /\ wlast' = NoResult
    /\ wend' = ""
    /\ wtext' = ""
    /\ wresult' = ""
    /\ wreset' = FALSE
    /\ wskipped' = 0

\* lines 62-77: a new session and its first request
StartSession(w) ==
    /\ wpc' = "await"
    /\ workerId' = w
    /\ iteration' = 0
    /\ wreq' = "task"
    /\ wrequests' = 1
    /\ wlen' = 0
    /\ wdone' = 0
    /\ wlast' = NoResult
    /\ wend' = ""
    /\ wtext' = ""
    /\ wresult' = ""
    /\ wreset' = FALSE
    /\ wskipped' = 0

\* the value of `iteration` when the response awaited arrives: the first
\* response enters the loop at 0, a later one ends a loop body (iteration++)
NextIteration == IF wreq = "task" THEN 0 ELSE iteration + 1

\* line 79: the loop test
LoopContinuesInclusive(i) == i <= WORKER_MAX_ITERATIONS

LoopContinues(i) == i < WORKER_MAX_ITERATIONS

\* a `return` of runWorkerTask: `skipped` calls of the batch were not reached
Return(kind, text, result, reset, skipped) ==
    /\ wpc' = "returned"
    /\ wend' = kind
    /\ wtext' = text
    /\ wresult' = result
    /\ wreset' = reset
    /\ wskipped' = skipped
    /\ iteration' = 0
    /\ wreq' = ""
    /\ wrequests' = 0
    /\ wlen' = 0
    /\ wdone' = 0
    /\ wlast' = NoResult
    /\ UNCHANGED workerId

\* lines 246-249: fetch or json() throws
WorkerFetchThrows(msg) ==
    /\ wpc = "await"
    /\ Return("thrown", msg, "Worker error: " \o msg, FALSE, 0)
    /\ UNCHANGED <<pipeVars, viewVars, plannerVars, factoryVars>>
    /\ UNCHANGED <<serverVars, executeVars>>

\* lines 79, 238-245: the loop test fails
WorkerTimeout ==
    /\ wpc = "await"
    /\ ~LoopContinues(NextIteration)
    /\ Return("timeout", "", "Worker task timed out (max iterations)", TRUE, 0)
    /\ UNCHANGED <<pipeVars, viewVars, plannerVars, factoryVars>>
    /\ UNCHANGED <<serverVars, executeVars>>

\* lines 80-96: an error with retryAfter; after the wait the loop asks the
\* service to continue
WorkerRateLimited(maxTurns) ==
    /\ wpc = "await"
    /\ LoopContinues(NextIteration)
    /\ NextIteration < maxTurns
    /\ iteration' = NextIteration
    /\ wreq' = "continue"
    /\ wrequests' = wrequests + 1
    /\ wdone' = 0
    /\ wlast' = NoResult
    /\ UNCHANGED <<wpc, workerId, wlen, wend, wtext, wresult, wreset, wskipped>>
    /\ UNCHANGED <<pipeVars, viewVars, plannerVars, factoryVars>>
    /\ UNCHANGED <<serverVars, executeVars>>

\* lines 97-98: an error without retryAfter
WorkerError(msg) ==
    /\ wpc = "await"
    /\ LoopContinues(NextIteration)
    /\ Return("error", msg, "Worker error: " \o msg, FALSE, 0)
    /\ UNCHANGED <<pipeVars, viewVars, plannerVars, factoryVars>>
    /\ UNCHANGED <<serverVars, executeVars>>

\* lines 101-104: a final text
WorkerText(text) ==
    /\ wpc = "await"
    /\ LoopContinues(NextIteration)
    /\ Return("text", text,
              IF text # "" THEN text ELSE "Worker completed (no summary)",
              FALSE, 0)
    /\ UNCHANGED <<pipeVars, viewVars, plannerVars, factoryVars>>
    /\ UNCHANGED <<serverVars, executeVars>>

\* lines 106-109: a batch of n tool calls
WorkerToolCalls(maxTurns, n) ==
    /\ wpc = "await"
    /\ LoopContinues(NextIteration)
    /\ NextIteration < maxTurns
    /\ iteration' = NextIteration
    /\ wpc' = "calls"
    /\ wlen' = n
    /\ wdone' = 0
    /\ wlast' = NoResult
    /\ UNCHANGED <<workerId, wreq, wrequests, wend, wtext, wresult, wreset,
                   wskipped>>
    /\ UNCHANGED <<pipeVars, viewVars, plannerVars, factoryVars>>
    /\ UNCHANGED <<serverVars, executeVars>>

\* lines 214-234: the result of a call is pushed; after the last call of the
\* batch the results are sent to the service
Resolved(name, response) ==
    /\ wdone' = wdone + 1
    /\ wlast' = [name |-> name, response |-> response]
    /\ IF wdone + 1 = wlen
       THEN /\ wpc' = "await"
            /\ wreq' = "toolResults"
            /\ wrequests' = wrequests + 1
       ELSE UNCHANGED <<wpc, wreq, wrequests>>
    /\ UNCHANGED <<workerId, iteration, wlen, wend, wtext, wresult, wreset,
                   wskipped>>

\* lines 114-117
ToolWalkToMachine(machineId) ==
    /\ wpc = "calls"
    /\ moveWorkerToMachine(workerId)
    /\ Resolved("walkToMachine", moveWorkerToMachineResult(workerId, machineId))
    /\ UNCHANGED <<pipeVars, viewVars, plannerVars>>
    /\ UNCHANGED <<serverVars, executeVars>>

\* lines 125-127; the JSON text of the worker's state is not modelled
ToolGetWorkerStatus ==
    /\ wpc = "calls"
    /\ Resolved("getWorkerStatus", workerStatus[workerId])
    /\ UNCHANGED <<pipeVars, viewVars, plannerVars, factoryVars>>
    /\ UNCHANGED <<serverVars, executeVars>>

\* lines 130-133
ToolPickUpSheet(maxMeshes) ==
    /\ wpc = "calls"
    /\ meshCount < maxMeshes
    /\ fetchSheet(workerId)
    /\ Resolved("pickUpSheet", fetchSheetResult)
    /\ UNCHANGED <<pipeVars, viewVars, plannerVars>>
    /\ UNCHANGED <<serverVars, executeVars>>

\* lines 135-138
ToolPickUpWorkpiece(machineId) ==
    /\ wpc = "calls"
    /\ pickUpFrom(workerId)
    /\ Resolved("pickUpWorkpiece", pickUpFromResult(machineId))
    /\ UNCHANGED <<pipeVars, viewVars, plannerVars>>
    /\ UNCHANGED <<serverVars, executeVars>>

\* lines 140-143
ToolPlaceWorkpiece(machineId) ==
    /\ wpc = "calls"
    /\ carryAndPlace(workerId)
    /\ Resolved("placeWorkpiece", carryAndPlaceResult(machineId))
    /\ UNCHANGED <<pipeVars, viewVars, plannerVars>>
    /\ UNCHANGED <<serverVars, executeVars>>

\* lines 145-148
ToolStoreInRack ==
    /\ wpc = "calls"
    /\ storeInRackFromWorker(workerId)
    /\ Resolved("storeInRack", storeInRackFromWorkerResult)
    /\ UNCHANGED <<pipeVars, viewVars, plannerVars>>
    /\ UNCHANGED <<serverVars, executeVars>>

\* lines 151-154
ToolOperateCutter ==
    /\ wpc = "calls"
    /\ operateMachineWithWorker(workerId, "cutter")
    /\ Resolved("operateCutter", operateMachineWithWorkerResult("cutter"))
    /\ UNCHANGED <<pipeVars, viewVars, plannerVars>>
    /\ UNCHANGED <<serverVars, executeVars>>

\* lines 156-163; the result text echoes the arguments
ToolSetRollerParams(p) ==
    /\ wpc = "calls"
    /\ setRollerParams(p)
    /\ Resolved("setRollerParams",
                "Roller params set: diameter=" \o ToString(p.diameter)
                    \o ", height=" \o ToString(p.height))
    /\ UNCHANGED <<pipeVars, viewVars, plannerVars>>
    /\ UNCHANGED <<serverVars, executeVars>>

\* lines 165-168
ToolOperateRoller ==
    /\ wpc = "calls"
    /\ operateMachineWithWorker(workerId, "roller")
    /\ Resolved("operateRoller", operateMachineWithWorkerResult("roller"))
    /\ UNCHANGED <<pipeVars, viewVars, plannerVars>>
    /\ UNCHANGED <<serverVars, executeVars>>

\* lines 170-178
ToolSetPressParams(p) ==
    /\ wpc = "calls"
    /\ setPressParams(p)
    /\ Resolved("setPressParams",
                "Press params set: top=" \o ToString(p.topRadius)
                    \o ", bottom=" \o ToString(p.bottomRadius)
                    \o ", h=" \o ToString(p.frustrumHeight))
    /\ UNCHANGED <<pipeVars, viewVars, plannerVars>>
    /\ UNCHANGED <<serverVars, executeVars>>

\* lines 180-183
ToolOperatePress ==
    /\ wpc = "calls"
    /\ operateMachineWithWorker(workerId, "press")
    /\ Resolved("operatePress", operateMachineWithWorkerResult("press"))
    /\ UNCHANGED <<pipeVars, viewVars, plannerVars>>
    /\ UNCHANGED <<serverVars, executeVars>>

\* lines 185-188
ToolOperateWelder ==
    /\ wpc = "calls"
    /\ operateMachineWithWorker(workerId, "welder")
    /\ Resolved("operateWelder", operateMachineWithWorkerResult("welder"))
    /\ UNCHANGED <<pipeVars, viewVars, plannerVars>>
    /\ UNCHANGED <<serverVars, executeVars>>

\* lines 191-199, written as if the case ended in `break`
ToolReportTaskCompleteContinues(summary) ==
    /\ wpc = "calls"
    /\ Resolved("reportTaskComplete",
                IF summary # "" THEN summary ELSE "Task completed")
    /\ UNCHANGED <<pipeVars, viewVars, plannerVars, factoryVars>>
    /\ UNCHANGED <<serverVars, executeVars>>

\* lines 191-199
ToolReportTaskComplete(summary) ==
    /\ wpc = "calls"
    /\ Return("complete", summary,
              IF summary # "" THEN summary ELSE "Task completed", TRUE,
              wlen - wdone - 1)
    /\ UNCHANGED <<pipeVars, viewVars, plannerVars, factoryVars>>
    /\ UNCHANGED <<serverVars, executeVars>>

\* lines 201-208
ToolReportProblem(problem) ==
    /\ wpc = "calls"
    /\ Return("problem", problem, "Worker reported problem: " \o problem, TRUE,
              wlen - wdone - 1)
    /\ UNCHANGED <<pipeVars, viewVars, plannerVars, factoryVars>>
    /\ UNCHANGED <<serverVars, executeVars>>

\* lines 210-211, written with an empty result
ToolUnknownSilent(name) ==
    /\ wpc = "calls"
    /\ Resolved(name, "")
    /\ UNCHANGED <<pipeVars, viewVars, plannerVars, factoryVars>>
    /\ UNCHANGED <<serverVars, executeVars>>

\* lines 210-211
ToolUnknown(name) ==
    /\ wpc = "calls"
    /\ Resolved(name, "Unknown tool: " \o name)
    /\ UNCHANGED <<pipeVars, viewVars, plannerVars, factoryVars>>
    /\ UNCHANGED <<serverVars, executeVars>>

-----------------------------------------------------------------------------
(* OrchestratorView.tsx: handleBuildPipe, handleOrchestratorResponse,       *)
(* executeOrchestratorToolCalls. The reasoning service behind               *)
(* /api/orchestrator is the environment. Arguments of a call that are only  *)
(* echoed into messages and results (summaries, task descriptions) are not  *)
(* modelled; the chat log `messages` is not modelled. Of the `results` of a *)
(* batch the model keeps the length and the last element.                   *)

InitView ==
    /\ isBuilding = FALSE
    /\ order = <<>>
    /\ submit = "none"

InitPlanner ==
    /\ opc = "idle"
    /\ oreq = ""
    /\ orequests = 0
    /\ olen = 0
    /\ odone = 0
    /\ olast = NoResult
    /\ ostep = 0

\* lines 374-417: the steps of the order replace the old ones and the order
\* message is sent to the planner
handleBuildPipe(s) ==
    /\ isBuilding' = TRUE
    /\ order' = <<s>>
    /\ steps' = breakdownPipeSpec(s)
    /\ stepCounter' = Len(breakdownPipeSpec(s))
    /\ opc' = "await"
    /\ oreq' = "order"
    /\ orequests' = 1
    /\ olen' = 0
    /\ odone' = 0
    /\ olast' = NoResult
    /\ ostep' = 0

\* PipeSpecForm.tsx lines 62-66, written without the validity test
HandleSubmitUnchecked ==
    /\ IF ~isBuilding
       THEN /\ submit' = "accepted"
            /\ handleBuildPipe(spec)
       ELSE /\ submit' = "rejected"
            /\ UNCHANGED <<steps, stepCounter, isBuilding, order, plannerVars>>
    /\ UNCHANGED <<spec, validation, filled, called, workerVars, factoryVars>>
    /\ UNCHANGED <<serverVars, executeVars>>

\* PipeSpecForm.tsx lines 62-66
HandleSubmit ==
    /\ IF validation.valid /\ ~isBuilding
       THEN /\ submit' = "accepted"
            /\ handleBuildPipe(spec)
       ELSE /\ submit' = "rejected"
            /\ UNCHANGED <<steps, stepCounter, isBuilding, order, plannerVars>>
    /\ UNCHANGED <<spec, validation, filled, called, workerVars, factoryVars>>
    /\ UNCHANGED <<serverVars, executeVars>>

\* handleOrchestratorResponse returns to handleBuildPipe (lines 423-424)
EndBuild ==
    /\ opc' = "idle"
    /\ isBuilding' = FALSE
    /\ olen' = 0
    /\ odone' = 0
    /\ olast' = NoResult
    /\ ostep' = 0
    /\ UNCHANGED <<oreq, orequests>>
    /\ UNCHANGED <<order, submit, pipeVars, workerVars, factoryVars>>
    /\ UNCHANGED <<serverVars, executeVars>>

\* lines 347-350
PlannerText ==
    /\ opc = "await"
    /\ EndBuild

\* lines 343-344
PlannerError ==
    /\ opc = "await"
    /\ EndBuild

\* lines 366-368, 419-421: fetch or json() throws
PlannerFetchThrows ==
    /\ opc = "await"
    /\ EndBuild

\* lines 326-341: an error with retryAfter; after the wait the planner is
\* asked to continue
PlannerRateLimited(maxRequests) ==
    /\ opc = "await"
    /\ orequests < maxRequests
    /\ oreq' = "continue"
    /\ orequests' = orequests + 1
    /\ odone' = 0
    /\ olast' = NoResult
    /\ UNCHANGED <<opc, olen, ostep>>
    /\ UNCHANGED <<viewVars, pipeVars, workerVars, factoryVars>>
    /\ UNCHANGED <<serverVars, executeVars>>

\* lines 352-353: a batch of n tool calls
PlannerToolCalls(maxRequests, n) ==
    /\ opc = "await"
    /\ orequests < maxRequests
    /\ opc' = "calls"
    /\ olen' = n
    /\ odone' = 0
    /\ olast' = NoResult
    /\ UNCHANGED <<oreq, orequests, ostep>>
    /\ UNCHANGED <<viewVars, pipeVars, workerVars, factoryVars>>
    /\ UNCHANGED <<serverVars, executeVars>>

\* lines 315, 355-365: the result of a call is pushed; after the last call
\* of the batch the results are sent to the planner
PlannerResolved(name, response) ==
    /\ odone' = odone + 1
    /\ olast' = [name |-> name, response |-> response]
    /\ IF odone + 1 = olen
       THEN /\ opc' = "await"
            /\ oreq' = "toolResults"
            /\ orequests' = orequests + 1
       ELSE /\ opc' = "calls"
            /\ UNCHANGED <<oreq, orequests>>
    /\ ostep' = 0
    /\ UNCHANGED olen

\* lines 264-267, 303-312: the calls answered with a text only
PlannerCallResult(name) ==
    CASE name = "planManufacturing" -> "Plan acknowledged"
      [] name = "getFactoryStatus" -> "factory state"
      [] name = "reportManufacturingComplete" -> "Manufacturing complete"
      [] OTHER -> "Unknown tool: " \o name

PlannerCall(name) ==
    /\ opc = "calls"
    /\ PlannerResolved(name, PlannerCallResult(name))
    /\ UNCHANGED <<viewVars, pipeVars, workerVars, factoryVars>>
    /\ UNCHANGED <<serverVars, executeVars>>

\* updated.find((s) => s.id === relatedStepId): step k is the first with the id
Found(ss, relatedStepId, k) ==
    /\ ss[k].id = relatedStepId
    /\ \A i \in 1..(k - 1) : ss[i].id # relatedStepId

\* lines 274-282: the setSteps updater of a dispatch
MarkInProgress(ss, relatedStepId, w) ==
    [k \in DOMAIN ss |->
        IF Found(ss, relatedStepId, k)
        THEN [ss[k] EXCEPT !.status = "in_progress", !.workerId = w]
        ELSE ss[k]]

\* lines 269-285: dispatchWorkerTask up to the first await of runWorkerTask
PlannerDispatch(w, relatedStepId) ==
    /\ opc = "calls"
    /\ steps' = MarkInProgress(steps, relatedStepId, w)
    /\ ostep' = relatedStepId
    /\ opc' = "worker"
    /\ StartSession(w)
    /\ UNCHANGED <<oreq, orequests, olen, odone, olast>>
    /\ UNCHANGED <<spec, validation, filled, stepCounter, called>>
    /\ UNCHANGED <<viewVars, factoryVars>>
    /\ UNCHANGED <<serverVars, executeVars>>

\* line 271: taskDescription.substring on a call without a taskDescription
\* throws; the exception leaves executeOrchestratorToolCalls and
\* handleOrchestratorResponse and is caught by a caller
PlannerDispatchThrows ==
    /\ opc = "calls"
    /\ EndBuild

\* lines 292-294, testing for "problem" only
StepStatusAfterProblemOnly(workerResult) ==
    IF Includes(workerResult, "problem") THEN "failed" ELSE "completed"

\* lines 292-294
StepStatusAfter(workerResult) ==
    IF Includes(workerResult, "problem") \/ Includes(workerResult, "error")
    THEN "failed" ELSE "completed"

\* lines 288-297, written without the status update
MarkFinishedSkipped(ss, relatedStepId, workerResult) == ss

\* lines 288-297: the setSteps updater after the session
MarkFinished(ss, relatedStepId, workerResult) ==
    [k \in DOMAIN ss |->
        IF Found(ss, relatedStepId, k)
        THEN [ss[k] EXCEPT !.status = StepStatusAfter(workerResult)]
        ELSE ss[k]]

\* lines 285-300: runWorkerTask has returned
DispatchReturn ==
    /\ opc = "worker"
    /\ wpc = "returned"
    /\ steps' = MarkFinished(steps, ostep, wresult)
    /\ PlannerResolved("dispatchWorkerTask",
           "Worker " \o ToString(workerId) \o " finished: " \o wresult)
    /\ EndSession
    /\ UNCHANGED <<spec, validation, filled, stepCounter, called>>
    /\ UNCHANGED <<viewVars, factoryVars>>
    /\ UNCHANGED <<serverVars, executeVars>>

-----------------------------------------------------------------------------
(* PipeSpecForm.tsx and SegmentEditor (unnamed/part_005): editing the order. *)
(* Every edit ends with the render that validates the new spec (line 17).    *)

DefaultSpec == PipeSpec(10000, 1000, <<>>)

Max(a, b) == IF a >= b THEN a ELSE b

\* lines 20-32
getRunningDiameter(upToIndex) ==
    EndDiameter(SubSeq(spec.segments, 1, Min(upToIndex, Len(spec.segments))),
                spec.initialDiameter)

\* line 16-17: the render after a state change
Render(s) ==
    /\ validation' = validatePipeSpec(s)
    /\ spec' = validatedSpec(s)
    /\ submit' = "none"
    /\ UNCHANGED <<filled, steps, stepCounter, called>>
    /\ UNCHANGED <<isBuilding, order, plannerVars, workerVars, factoryVars>>
    /\ UNCHANGED <<serverVars, executeVars>>

\* the state after the first render
InitForm ==
    /\ spec = validatedSpec(DefaultSpec)
    /\ validation = validatePipeSpec(DefaultSpec)
    /\ filled = <<>>
    /\ steps = <<>>
    /\ stepCounter = 0
    /\ called = {}

\* line 82 (the input is disabled while building)
SetTotalLength(v) ==
    /\ ~isBuilding
    /\ Render([spec EXCEPT !.totalLength = v])

\* line 97 (the input is disabled while building)
SetInitialDiameter(v) ==
    /\ ~isBuilding
    /\ Render([spec EXCEPT !.initialDiameter = v])

\* lines 34-50 (the button is not rendered while building)
AddSegment(maxSegments) ==
    /\ ~isBuilding
    /\ Len(spec.segments) < maxSegments
    /\ LET remainingLength == spec.totalLength - SumHeights(spec.segments)
           height == Min(Max(remainingLength, CONSTRAINTS.minSegmentHeight),
                         CONSTRAINTS.rollerHeightMax)
       IN  Render([spec EXCEPT !.segments =
               Append(@, Cylinder(height,
                                  getRunningDiameter(Len(spec.segments))))])

\* lines 52-56
updateSegment(i, seg) ==
    Render([spec EXCEPT !.segments = [@ EXCEPT ![i] = seg]])

\* part_005 lines 31-37: the CYL button of segment i (1-based)
ToCylinder(i) ==
    /\ i \in DOMAIN spec.segments
    /\ updateSegment(i,
           Cylinder(OrElse(spec.segments[i].height,
                           CONSTRAINTS.minSegmentHeight),
                    getRunningDiameter(i - 1)))

\* part_005 lines 46-53: the FRS button of segment i
ToFrustrum(i) ==
    /\ i \in DOMAIN spec.segments
    /\ updateSegment(i,
           Frustrum(OrElse(spec.segments[i].height,
                           CONSTRAINTS.frustrumHeightMin),
                    getRunningDiameter(i - 1),
                    OrElse(spec.segments[i].bottomDiameter,
                           getRunningDiameter(i - 1))))

\* part_005 lines 79-84, 122-127: the height input of segment i
SetHeight(i, v) ==
    /\ i \in DOMAIN spec.segments
    /\ updateSegment(i,
           [spec.segments[i] EXCEPT !.height =
               OrElse(v, IF spec.segments[i].type = "cylinder"
                         THEN CONSTRAINTS.minSegmentHeight
                         ELSE CONSTRAINTS.frustrumHeightMin)])

\* part_005 lines 103-109: the diameter input of frustrum i
SetBottomDiameter(i, v) ==
    /\ i \in DOMAIN spec.segments
    /\ spec.segments[i].type = "frustrum"
    /\ updateSegment(i,
           [spec.segments[i] EXCEPT
               !.bottomDiameter = OrElse(v, getRunningDiameter(i - 1)),
               !.topDiameter = getRunningDiameter(i - 1)])

\* lines 58-60
deleteSegment(i) ==
    /\ i \in DOMAIN spec.segments
    /\ Render([spec EXCEPT !.segments =
           SubSeq(@, 1, i - 1) \o SubSeq(@, i + 1, Len(@))])

-----------------------------------------------------------------------------
(* index.ts: the routes of the server and the two session maps. A request   *)
(* is handled in one step. The reasoning service behind a session is the    *)
(* environment: a message either enters the history of the chat or fails    *)
(* and leaves the history as it was. GEMINI_API_KEY is taken as configured. *)
(* Of a request body the model keeps the session id and which of `message`  *)
(* and `toolResults` it carries ("" for neither).                           *)

\* new GeminiSession(key), new OrchestratorSession(key): chat = null
NewSession == [chat |-> FALSE, history |-> <<>>]

\* Map.set
Put(m, k, v) == [x \in DOMAIN m \cup {k} |-> IF x = k THEN v ELSE m[x]]

\* Map.delete
Delete(m, k) == [x \in DOMAIN m \ {k} |-> m[x]]

NoRequest == [route |-> "", sessionId |-> "", status |-> 0]

InitServer ==
    /\ sessions = [x \in {} |-> NewSession]
    /\ orchestratorSessions = [x \in {} |-> NewSession]
    /\ http = NoRequest

\* lines 41-55, 108-122: the session of the id is looked up or created, then
\* the body is passed to submitToolResults or sendMessage (ensureChat, then
\* chat.sendMessage, which is `delivered` or throws)
Post(m, sessionId, body, delivered) ==
    IF sessionId = "" THEN m
    ELSE LET session == IF sessionId \in DOMAIN m THEN m[sessionId]
                        ELSE NewSession
         IN  IF body = "" THEN Put(m, sessionId, session)
             ELSE Put(m, sessionId,
                      [chat |-> TRUE,
                       history |-> IF delivered
                                   THEN Append(session.history, body)
                                   ELSE session.history])

\* the status of the response: 400 without sessionId and without message
\* and toolResults
PostStatus(sessionId, body) ==
    IF sessionId = "" \/ body = "" THEN 400 ELSE 200

\* lines 70-86, 137-153, written with a reset that clears the map
ResetClearsAll(m, sessionId) ==
    IF sessionId # "" /\ sessionId \in DOMAIN m
    THEN [x \in {} |-> NewSession]
    ELSE m

\* lines 70-86, 137-153: session.reset() and delete, for a session that
\* exists
Reset(m, sessionId) ==
    IF sessionId # "" /\ sessionId \in DOMAIN m
    THEN Delete(m, sessionId)
    ELSE m

\* the history of session sessionId has room for one more message
Room(m, sessionId, maxHistory) ==
    sessionId \in DOMAIN m => Len(m[sessionId].history) < maxHistory

\* lines 21-67: POST /api/chat
ChatPost(sessionId, body, delivered, maxHistory) ==
    /\ Room(sessions, sessionId, maxHistory)
    /\ sessions' = Post(sessions, sessionId, body, delivered)
    /\ http' = [route |-> "/api/chat", sessionId |-> sessionId,
                status |-> PostStatus(sessionId, body)]
    /\ UNCHANGED orchestratorSessions
    /\ UNCHANGED <<pipeVars, viewVars, plannerVars, workerVars, factoryVars>>
    /\ UNCHANGED executeVars

\* lines 70-86: POST /api/chat/reset
ChatReset(sessionId) ==
    /\ sessions' = Reset(sessions, sessionId)
    /\ http' = [route |-> "/api/chat/reset", sessionId |-> sessionId,
                status |-> 200]
    /\ UNCHANGED orchestratorSessions
    /\ UNCHANGED <<pipeVars, viewVars, plannerVars, workerVars, factoryVars>>
    /\ UNCHANGED executeVars

\* lines 88-134: POST /api/orchestrator
OrchestratorPost(sessionId, body, delivered, maxHistory) ==
    /\ Room(orchestratorSessions, sessionId, maxHistory)
    /\ orchestratorSessions'
          = Post(orchestratorSessions, sessionId, body, delivered)
    /\ http' = [route |-> "/api/orchestrator", sessionId |-> sessionId,
                status |-> PostStatus(sessionId, body)]
    /\ UNCHANGED sessions
    /\ UNCHANGED <<pipeVars, viewVars, plannerVars, workerVars, factoryVars>>
    /\ UNCHANGED executeVars

\* lines 137-153: POST /api/orchestrator/reset
OrchestratorReset(sessionId) ==
    /\ orchestratorSessions' = Reset(orchestratorSessions, sessionId)
    /\ http' = [route |-> "/api/orchestrator/reset", sessionId |-> sessionId,
                status |-> 200]
    /\ UNCHANGED sessions
    /\ UNCHANGED <<pipeVars, viewVars, plannerVars, workerVars, factoryVars>>
    /\ UNCHANGED executeVars

-----------------------------------------------------------------------------
(* FactoryController.ts: setSteps, executeAllSteps and stopExecution.       *)
(* executeAllSteps is followed from phase to phase: an action is the work   *)
(* of one phase from its first await on, the status update that ends it and *)
(* the code up to the first await of the phase the loop enters next. The    *)
(* awaits inside a phase (walks, gestures, machine animations) are one      *)
(* step; stopExecution can run at any of them.                              *)

InitExecute ==
    /\ isRunning = FALSE
    /\ epc = "idle"
    /\ segIdx = 0
    /\ sectionIdx = 0

MinOf(S) == CHOOSE x \in S : \A y \in S : x <= y

RECURSIVE NthOf(_, _)
NthOf(S, j) == IF j <= 1 THEN MinOf(S) ELSE NthOf(S \ {MinOf(S)}, j - 1)

\* lines 248-256: the keys of segmentGroups
segmentIndices(ss) == {ss[k].segmentIndex : k \in DOMAIN ss}

\* lines 262-268: segSteps.filter((s) => s.action === action), as indices
\* into this.steps
SegSteps(ss, seg, action) ==
    {k \in DOMAIN ss : ss[k].segmentIndex = seg /\ ss[k].action = action}

\* segSteps.find((s) => s.action === action): the first, 0 for undefined
FindStep(ss, seg, action) ==
    IF SegSteps(ss, seg, action) = {} THEN 0
    ELSE MinOf(SegSteps(ss, seg, action))

\* lines 271-437: the first of the phases p to 5 of segment seg whose
\* condition holds when this.workpiece is wp; "sections" if none does
PhaseFrom(p, ss, seg, wp) ==
    IF p <= 1 /\ FindStep(ss, seg, "fetch_sheet") # 0 THEN "fetch"
    ELSE IF p <= 2 /\ FindStep(ss, seg, "cut_sheet") # 0 /\ wp # 0 THEN "cut"
    ELSE IF p <= 3 /\ FindStep(ss, seg, "bend_cylinder") # 0 /\ wp # 0
    THEN "bend"
    ELSE IF p <= 3 /\ FindStep(ss, seg, "press_frustrum") # 0 /\ wp # 0
    THEN "press"
    ELSE IF p <= 4 /\ FindStep(ss, seg, "weld_seam") # 0 /\ wp # 0
    THEN "weld"
    ELSE IF p <= 5 /\ wp # 0 THEN "store"
    ELSE "sections"

Stopped == [epc |-> "idle", segIdx |-> 0, sectionIdx |-> 0]

\* lines 259-260, 440-441, 480: where executeAllSteps awaits next when it
\* goes on from phase p of segment seg, having taken j of the segment's
\* weld_sections steps; without the test of isRunning at the head of the
\* segment loop
RECURSIVE ResumeNoStop(_, _, _, _, _, _)
ResumeNoStop(p, ss, seg, j, wp, running) ==
    LET phase == PhaseFrom(p, ss, seg, wp)
        later == {i \in segmentIndices(ss) : i > seg}
    IN  IF phase # "sections"
        THEN [epc |-> phase, segIdx |-> seg, sectionIdx |-> 0]
        ELSE IF running /\ j < Cardinality(SegSteps(ss, seg, "weld_sections"))
        THEN [epc |-> "sections", segIdx |-> seg, sectionIdx |-> j + 1]
        ELSE IF later # {}
        THEN ResumeNoStop(1, ss, MinOf(later), 0, wp, running)
        ELSE Stopped

\* lines 259-260, 440-441, 480: where executeAllSteps awaits next when it
\* goes on from phase p of segment seg, having taken j of the segment's
\* weld_sections steps; Stopped when it returns
RECURSIVE Resume(_, _, _, _, _, _)
Resume(p, ss, seg, j, wp, running) ==
    LET phase == PhaseFrom(p, ss, seg, wp)
        later == {i \in segmentIndices(ss) : i > seg}
    IN  IF phase # "sections"
        THEN [epc |-> phase, segIdx |-> seg, sectionIdx |-> 0]
        ELSE IF running /\ j < Cardinality(SegSteps(ss, seg, "weld_sections"))
        THEN [epc |-> "sections", segIdx |-> seg, sectionIdx |-> j + 1]
        ELSE IF running /\ later # {}
        THEN Resume(1, ss, MinOf(later), 0, wp, running)
        ELSE Stopped

\* the step of the phase at position r (0 for the store phase)
StepAt(ss, r) ==
    CASE r.epc = "fetch" -> FindStep(ss, r.segIdx, "fetch_sheet")
      [] r.epc = "cut" -> FindStep(ss, r.segIdx, "cut_sheet")
      [] r.epc = "bend" -> FindStep(ss, r.segIdx, "bend_cylinder")
      [] r.epc = "press" -> FindStep(ss, r.segIdx, "press_frustrum")
      [] r.epc = "weld" -> FindStep(ss, r.segIdx, "weld_seam")
      [] r.epc = "sections" ->
            NthOf(SegSteps(ss, r.segIdx, "weld_sections"), r.sectionIdx)
      [] OTHER -> 0

\* the workerId the phase gives its step
PhaseWorker(phase) ==
    CASE phase = "fetch" -> 0
      [] phase = "cut" -> 1
      [] phase = "bend" -> 2
      [] phase = "press" -> 3
      [] OTHER -> 4

\* step.status = "in_progress"; step.workerId = ..
Started(ss, r) ==
    [k \in DOMAIN ss |->
        IF k = StepAt(ss, r)
        THEN [ss[k] EXCEPT !.status = "in_progress",
                           !.workerId = PhaseWorker(r.epc)]
        ELSE ss[k]]

\* step.status = "completed"
Completed(ss, k) ==
    [i \in DOMAIN ss |->
        IF i = k THEN [ss[i] EXCEPT !.status = "completed"] ELSE ss[i]]

\* lines 323-328, 363-369: the parameters set on entering the bend or the
\* press phase
ParamsAt(ss, r, old) ==
    CASE r.epc = "bend" ->
            [old EXCEPT !.roller =
                [diameter |-> ss[StepAt(ss, r)].params.diameter,
                 height   |-> ss[StepAt(ss, r)].params.height]]
      [] r.epc = "press" ->
            [old EXCEPT !.press =
                [topRadius      |-> ss[StepAt(ss, r)].params.topRadius,
                 bottomRadius   |-> ss[StepAt(ss, r)].params.bottomRadius,
                 frustrumHeight |-> ss[StepAt(ss, r)].params.frustrumHeight]]
      [] OTHER -> old

ConfiguredAt(r, old) ==
    CASE r.epc = "bend" -> old \cup {"roller"}
      [] r.epc = "press" -> old \cup {"press"}
      [] OTHER -> old

\* executeAllSteps goes on to position r: the step there is started; when
\* the function returns, isRunning is reset (lines 480-481)
Proceed(ss, r) ==
    /\ steps' = Started(ss, r)
    /\ epc' = r.epc
    /\ segIdx' = r.segIdx
    /\ sectionIdx' = r.sectionIdx
    /\ machineParams' = ParamsAt(ss, r, machineParams)
    /\ configured' = ConfiguredAt(r, configured)

\* setSteps with the steps of an order, breakdownPipeSpec written without
\* `stepCounter = 0` (pipeBreakdown.ts line 30)
setStepsNoReset(s) ==
    /\ epc = "idle"
    /\ steps' = [k \in DOMAIN breakdownPipeSpec(s) |->
                    [breakdownPipeSpec(s)[k] EXCEPT !.id = stepCounter + @]]
    /\ stepCounter' = stepCounter + Len(breakdownPipeSpec(s))
    /\ UNCHANGED <<spec, validation, filled, called>>
    /\ UNCHANGED <<viewVars, plannerVars, workerVars, factoryVars,
                   serverVars, executeVars>>

\* lines 228-231: setSteps with the steps breakdownPipeSpec returns for an
\* order (pipeBreakdown.ts lines 29-134)
setSteps(s) ==
    /\ epc = "idle"
    /\ steps' = breakdownPipeSpec(s)
    /\ stepCounter' = Len(breakdownPipeSpec(s))
    /\ UNCHANGED <<spec, validation, filled, called>>
    /\ UNCHANGED <<viewVars, plannerVars, workerVars, factoryVars,
                   serverVars, executeVars>>

\* lines 238-276: the call, up to the first await
executeAllSteps(maxMeshes) ==
    /\ epc = "idle"
    /\ meshCount < maxMeshes
    /\ LET r == Resume(6, steps, 0 - 1, 0, workpiece, TRUE)
       IN  /\ Proceed(steps, r)
           /\ isRunning' = (r.epc # "idle")
    /\ UNCHANGED <<geometry, workpiece, meshCount, carriedMesh, workerStatus,
                   nextCradleIndex, storedPipes>>
    /\ UNCHANGED <<spec, validation, filled, stepCounter, called>>
    /\ UNCHANGED <<viewVars, plannerVars, workerVars, serverVars>>

\* lines 484-487
stopExecution ==
    /\ isRunning' = FALSE
    /\ UNCHANGED <<epc, segIdx, sectionIdx>>
    /\ UNCHANGED <<pipeVars, viewVars, plannerVars, workerVars, factoryVars,
                   serverVars>>

\* the position executeAllSteps is at
Here == [epc |-> epc, segIdx |-> segIdx, sectionIdx |-> sectionIdx]

\* the rest of a phase: the step is completed and the loop goes on from
\* phase p with this.workpiece = wp
Finish(p, wp) ==
    LET done == Completed(steps, StepAt(steps, Here))
        r    == Resume(p, done, segIdx, sectionIdx, wp, isRunning)
    IN  /\ Proceed(done, r)
        /\ isRunning' = IF r.epc = "idle" THEN FALSE ELSE isRunning
        /\ UNCHANGED <<spec, validation, filled, stepCounter, called>>
        /\ UNCHANGED <<viewVars, plannerVars, workerVars, serverVars>>

\* lines 271-286 (phase 1): the transporter picks a sheet up; createWorkpiece
\* disposes of the current workpiece and makes a new mesh
FetchPhase ==
    /\ epc = "fetch"
    /\ workerStatus' = [workerStatus EXCEPT ![0] = "carrying"]
    /\ meshCount' = meshCount + 1
    /\ workpiece' = meshCount + 1
    /\ carriedMesh' = [carriedMesh EXCEPT ![0] = meshCount + 1]
    /\ geometry' = Append(IF workpiece # 0
                           THEN [geometry EXCEPT
                                    ![workpiece] = DisposedGeometry]
                           ELSE geometry,
                           BoxGeometry)
    /\ UNCHANGED <<nextCradleIndex, storedPipes>>
    /\ Finish(2, meshCount + 1)

\* lines 289-314 (phase 2): the sheet is carried to the cutter, cut and
\* picked up again
CutPhase ==
    /\ epc = "cut"
    /\ workerStatus' = [workerStatus EXCEPT ![0] = "carrying", ![1] = "idle"]
    /\ carriedMesh' = [carriedMesh EXCEPT ![0] = workpiece]
    /\ UNCHANGED <<geometry, workpiece, meshCount, nextCradleIndex,
                   storedPipes>>
    /\ Finish(3, workpiece)

\* transformWorkpieceToCylinder(diameter, height), lines 172-180
transformWorkpieceToCylinder(diameter, height) ==
    CylinderGeometry(((diameter \div 2) * 4) \div 10,
                     ((diameter \div 2) * 4) \div 10,
                     Min((height * 3) \div 10, 1000), TRUE)

\* transformWorkpieceToFrustrum(topR, bottomR, height), lines 182-188
transformWorkpieceToFrustrum(topR, bottomR, height) ==
    CylinderGeometry((topR * 4) \div 10, (bottomR * 4) \div 10,
                     Min((height * 3) \div 10, 1000), FALSE)

\* lines 317-355 (phase 3, roller)
BendPhase ==
    /\ epc = "bend"
    /\ workerStatus' = [workerStatus EXCEPT ![0] = "carrying", ![2] = "idle"]
    /\ carriedMesh' = [carriedMesh EXCEPT ![0] = workpiece]
    /\ geometry' =
          [geometry EXCEPT ![workpiece] =
              transformWorkpieceToCylinder(
                  steps[StepAt(steps, Here)].params.diameter,
                  steps[StepAt(steps, Here)].params.height)]
    /\ UNCHANGED <<workpiece, meshCount, nextCradleIndex, storedPipes>>
    /\ Finish(4, workpiece)

\* lines 357-397 (phase 3, press)
PressPhase ==
    /\ epc = "press"
    /\ workerStatus' = [workerStatus EXCEPT ![0] = "carrying", ![3] = "idle"]
    /\ carriedMesh' = [carriedMesh EXCEPT ![0] = workpiece]
    /\ geometry' =
          [geometry EXCEPT ![workpiece] =
              transformWorkpieceToFrustrum(
                  steps[StepAt(steps, Here)].params.topRadius,
                  steps[StepAt(steps, Here)].params.bottomRadius,
                  steps[StepAt(steps, Here)].params.frustrumHeight)]
    /\ UNCHANGED <<workpiece, meshCount, nextCradleIndex, storedPipes>>
    /\ Finish(4, workpiece)

\* closeWorkpiece, lines 190-201
closeWorkpiece(old) ==
    IF old.type = "cylinder" THEN [old EXCEPT !.openEnded = FALSE] ELSE old

\* lines 401-428 (phase 4)
WeldSeamPhase ==
    /\ epc = "weld"
    /\ workerStatus' = [workerStatus EXCEPT ![0] = "carrying", ![4] = "idle"]
    /\ carriedMesh' = [carriedMesh EXCEPT ![0] = workpiece]
    /\ geometry' = [geometry EXCEPT ![workpiece] = closeWorkpiece(@)]
    /\ UNCHANGED <<workpiece, meshCount, nextCradleIndex, storedPipes>>
    /\ Finish(5, workpiece)

\* lines 432-437 (phase 5): storeWorkpieceInRack, lines 203-216
StorePhase ==
    /\ epc = "store"
    /\ workerStatus' = [workerStatus EXCEPT ![0] = "idle"]
    /\ carriedMesh' = [carriedMesh EXCEPT ![0] = 0]
    /\ IF nextCradleIndex < slotCount
       THEN /\ storedPipes' = Append(storedPipes, workpiece)
            /\ nextCradleIndex' = nextCradleIndex + 1
       ELSE UNCHANGED <<storedPipes, nextCradleIndex>>
    /\ workpiece' = 0
    /\ UNCHANGED <<geometry, meshCount>>
    /\ Finish(6, 0)

\* lines 440-477 (phase 6, one weld_sections step): a piece is made for the
\* assembly weld, welded and stored in the rack
SectionsPhase ==
    /\ epc = "sections"
    /\ workerStatus' = [workerStatus EXCEPT ![0] = "idle", ![4] = "idle"]
    /\ carriedMesh' = [carriedMesh EXCEPT ![0] = 0]
    /\ meshCount' = meshCount + 1
    /\ geometry' = Append(IF workpiece # 0
                           THEN [geometry EXCEPT
                                    ![workpiece] = DisposedGeometry]
                           ELSE geometry,
                           transformWorkpieceToCylinder(1000, 2000))
    /\ IF nextCradleIndex < slotCount
       THEN /\ storedPipes' = Append(storedPipes, meshCount + 1)
            /\ nextCradleIndex' = nextCradleIndex + 1
       ELSE UNCHANGED <<storedPipes, nextCradleIndex>>
    /\ workpiece' = 0
    /\ Finish(6, 0)

-----------------------------------------------------------------------------
(* The inputs of the view, of the two reasoning services and of the worker  *)
(* tools, and the specifications built from them.                           *)

MaxPlannerRequests == 2

MaxPlannerBatch == 2

MaxBatch == 2

MaxWorkerTurns == 2

MaxMeshes == 2

MaxFormSegments == 1

\* summaries, problems and final texts of a worker session
Texts == {"", "no errors"}

\* messages of exceptions and of fatal errors
ErrorTexts == {"Failed to fetch"}

PlannerCallNames ==
    {"planManufacturing", "getFactoryStatus", "reportManufacturingComplete",
     "inspectFactory"}

\* relatedStepId of a dispatch: the first step and an id no step has
StepIds == {1, 99}

DispatchWorkerIds == {0, 2}

ToolMachineIds == {"cutter", "welder"}

FormLengths == {999, 10000}

FormDiameters == {298, 1000}

FormHeights == {0, 999}

FormBottomDiameters == {0, 2402}

\* a number of turns the loop of runWorkerTask never reaches
NoTurnCap == WORKER_MAX_ITERATIONS + 2

Init ==
    /\ InitForm
    /\ InitView
    /\ InitPlanner
    /\ InitWorker
    /\ InitFactory
    /\ InitServer
    /\ InitExecute

\* the responses of /api/worker short of the iteration cap
WorkerResponses(maxTurns) ==
    \/ \E msg \in ErrorTexts : WorkerFetchThrows(msg)
    \/ WorkerRateLimited(maxTurns)
    \/ \E msg \in ErrorTexts : WorkerError(msg)
    \/ \E text \in Texts : WorkerText(text)
    \/ \E n \in 1..MaxBatch : WorkerToolCalls(maxTurns, n)

ReportTools ==
    \/ \E summary \in Texts : ToolReportTaskComplete(summary)
    \/ \E problem \in Texts : ToolReportProblem(problem)
    \/ ToolUnknown("inspectWeld")

FactoryTools ==
    \/ \E machineId \in ToolMachineIds : ToolWalkToMachine(machineId)
    \/ ToolGetWorkerStatus
    \/ ToolPickUpSheet(MaxMeshes)
    \/ \E machineId \in ToolMachineIds : ToolPickUpWorkpiece(machineId)
    \/ \E machineId \in ToolMachineIds : ToolPlaceWorkpiece(machineId)
    \/ ToolStoreInRack

(* Spec: one order after another from the default form; the planner uses   *)
(* its whole vocabulary, the workers report or call a tool the loop does   *)
(* not know, for up to WORKER_MAX_ITERATIONS turns.                        *)
Next ==
    \/ HandleSubmit
    \/ PlannerText
    \/ PlannerError
    \/ PlannerFetchThrows
    \/ PlannerRateLimited(MaxPlannerRequests)
    \/ \E n \in 1..MaxPlannerBatch : PlannerToolCalls(MaxPlannerRequests, n)
    \/ \E name \in PlannerCallNames : PlannerCall(name)
    \/ \E w \in DispatchWorkerIds, id \in StepIds : PlannerDispatch(w, id)
    \/ PlannerDispatchThrows
    \/ DispatchReturn
    \/ WorkerResponses(NoTurnCap)
    \/ WorkerTimeout
    \/ ReportTools

Spec == Init /\ [][Next]_vars

(* SpecWorker: the planner only dispatches, one call per batch; the worker *)
(* sessions use the factory tools and end within MaxWorkerTurns turns.     *)
NextWorker ==
    \/ HandleSubmit
    \/ PlannerText
    \/ PlannerToolCalls(MaxPlannerRequests, 1)
    \/ \E w \in DispatchWorkerIds : PlannerDispatch(w, 1)
    \/ DispatchReturn
    \/ WorkerResponses(MaxWorkerTurns)
    \/ ReportTools
    \/ FactoryTools

SpecWorker == Init /\ [][NextWorker]_vars

(* SpecForm: the order is edited and submitted; the planner answers every  *)
(* order with a text, an error or not at all.                              *)
NextForm ==
    \/ \E v \in FormLengths : SetTotalLength(v)
    \/ \E v \in FormDiameters : SetInitialDiameter(v)
    \/ AddSegment(MaxFormSegments)
    \/ \E i \in 1..MaxFormSegments : ToCylinder(i)
    \/ \E i \in 1..MaxFormSegments : ToFrustrum(i)
    \/ \E i \in 1..MaxFormSegments, v \in FormHeights : SetHeight(i, v)
    \/ \E i \in 1..MaxFormSegments, v \in FormBottomDiameters :
          SetBottomDiameter(i, v)
    \/ \E i \in 1..MaxFormSegments : deleteSegment(i)
    \/ HandleSubmit
    \/ PlannerText
    \/ PlannerError
    \/ PlannerFetchThrows

SpecForm == Init /\ [][NextForm]_vars

\* relatedStepId of the dispatches of SpecDispatch: the first two steps
DispatchStepIds == {1, 2}

(* SpecDispatch: the planner sends batches of dispatches for the first two *)
(* steps; a worker session ends with its first response.                   *)
NextDispatch ==
    \/ HandleSubmit
    \/ PlannerText
    \/ \E n \in 1..MaxPlannerBatch : PlannerToolCalls(MaxPlannerRequests, n)
    \/ \E w \in DispatchWorkerIds, id \in DispatchStepIds :
          PlannerDispatch(w, id)
    \/ DispatchReturn
    \/ \E text \in Texts : WorkerText(text)
    \/ \E msg \in ErrorTexts : WorkerError(msg)

SpecDispatch == Init /\ [][NextDispatch]_vars

\* arguments of setRollerParams and setPressParams (other than the defaults)
RollerParamInputs == {[diameter |-> 600, height |-> 2000]}

PressParamInputs ==
    {[topRadius |-> 500, bottomRadius |-> 300, frustrumHeight |-> 800]}

MachineTools ==
    \/ ToolPickUpSheet(MaxMeshes)
    \/ \E p \in RollerParamInputs : ToolSetRollerParams(p)
    \/ ToolOperateRoller
    \/ \E p \in PressParamInputs : ToolSetPressParams(p)
    \/ ToolOperatePress
    \/ ToolOperateCutter
    \/ ToolOperateWelder

(* SpecMachines: the planner dispatches the first step, one call per batch; *)
(* the worker sessions fetch sheets and set and operate the machines.       *)
NextMachines ==
    \/ HandleSubmit
    \/ PlannerText
    \/ PlannerToolCalls(MaxPlannerRequests, 1)
    \/ PlannerDispatch(2, 1)
    \/ DispatchReturn
    \/ \E n \in 1..MaxBatch : WorkerToolCalls(MaxWorkerTurns, n)
    \/ ToolReportTaskComplete("")
    \/ MachineTools

SpecMachines == Init /\ [][NextMachines]_vars

\* one sheet more than the rack has cradles
MaxRackMeshes == slotCount + 1

(* SpecRack: the transporter fetches sheets and stores them in the rack,   *)
(* session after session.                                                  *)
NextRack ==
    \/ HandleSubmit
    \/ PlannerText
    \/ PlannerToolCalls(MaxPlannerRequests, 1)
    \/ PlannerDispatch(0, 1)
    \/ DispatchReturn
    \/ \E n \in 1..MaxBatch : WorkerToolCalls(MaxWorkerTurns, n)
    \/ ToolReportTaskComplete("")
    \/ ToolPickUpSheet(MaxRackMeshes)
    \/ ToolStoreInRack

SpecRack == Init /\ [][NextRack]_vars

MaxHistory == 1

\* the sessionId of a request body ("" for none)
SessionIdInputs == {"", "s1", "s2"}

\* what a request body carries: nothing, a message, tool results
BodyInputs == {"", "message", "toolResults"}

(* SpecServer: requests to the chat and orchestrator routes of the server, *)
(* in any order.                                                           *)
NextServer ==
    \/ \E sessionId \in SessionIdInputs, body \in BodyInputs,
          delivered \in BOOLEAN :
          ChatPost(sessionId, body, delivered, MaxHistory)
    \/ \E sessionId \in SessionIdInputs : ChatReset(sessionId)
    \/ \E sessionId \in SessionIdInputs, body \in BodyInputs,
          delivered \in BOOLEAN :
          OrchestratorPost(sessionId, body, delivered, MaxHistory)
    \/ \E sessionId \in SessionIdInputs : OrchestratorReset(sessionId)

SpecServer == Init /\ [][NextServer]_vars

-----------------------------------------------------------------------------
(* Inputs of the pure functions: every bound of CONSTRAINTS with the value   *)
(* on it and the nearest value outside it.                                   *)

MaxSegments == 2

TotalLengths == {0, 999, 1000, 6000, 10000, 50000, 50001}

\* the total lengths combined with declared segments
SegmentedLengths == {999, 1000, 6000}

InitialDiameters == {0, 298, 300, 398, 400, 1000, 2000, 2002}

SegmentInputs ==
    { Cylinder(h, 0) : h \in {999, 1000, 5000, 5001} }
    \cup { Frustrum(300, 0, 600), Frustrum(299, 0, 598),
           Frustrum(1500, 0, 2400), Frustrum(1501, 0, 2402),
           Frustrum(800, 0, 0), Frustrum(800, 0, 800),
           Frustrum(800, 0, 600) }

SegmentLists ==
    UNION { [1..n -> SegmentInputs] : n \in 1..MaxSegments }

PipeSpecs ==
    { PipeSpec(len, dia, <<>>) :
        len \in TotalLengths, dia \in InitialDiameters }
    \cup
    { PipeSpec(len, dia, segs) :
        len \in SegmentedLengths, dia \in InitialDiameters,
        segs \in SegmentLists }

NoValidation == [valid |-> FALSE, errors |-> <<>>, warnings |-> <<>>]

InitPipe ==
    /\ spec \in PipeSpecs
    /\ validation = NoValidation
    /\ filled = <<>>
    /\ steps = <<>>
    /\ stepCounter = 0
    /\ called = {}
    /\ InitView
    /\ InitPlanner
    /\ InitWorker
    /\ InitFactory
    /\ InitServer
    /\ InitExecute

\* PipeSpecForm.tsx line 17: validatePipeSpec(spec), which also writes the
\* derived diameters into the segments of spec
Validate ==
    /\ called = {}
    /\ validation' = validatePipeSpec(spec)
    /\ spec' = validatedSpec(spec)
    /\ called' = called \cup {"validatePipeSpec"}
    /\ UNCHANGED <<filled, steps, stepCounter>>
    /\ UNCHANGED <<viewVars, plannerVars, workerVars, factoryVars>>
    /\ UNCHANGED <<serverVars, executeVars>>

\* a call of autoFillSegments(spec), on the input as given or as the
\* validator left it
AutoFill ==
    /\ "autoFillSegments" \notin called
    /\ filled' = autoFillSegments(spec)
    /\ called' = called \cup {"autoFillSegments"}
    /\ UNCHANGED <<spec, validation, steps, stepCounter>>
    /\ UNCHANGED <<viewVars, plannerVars, workerVars, factoryVars>>
    /\ UNCHANGED <<serverVars, executeVars>>

\* a call of breakdownPipeSpec(spec), on the input as given or as the
\* validator left it
Breakdown ==
    /\ "breakdownPipeSpec" \notin called
    /\ steps' = breakdownPipeSpec(spec)
    /\ stepCounter' = Len(breakdownPipeSpec(spec))
    /\ called' = called \cup {"breakdownPipeSpec"}
    /\ UNCHANGED <<spec, validation, filled>>
    /\ UNCHANGED <<viewVars, plannerVars, workerVars, factoryVars>>
    /\ UNCHANGED <<serverVars, executeVars>>

NextPipe == Validate \/ AutoFill \/ Breakdown

SpecPipe == InitPipe /\ [][NextPipe]_vars

MaxExecuteMeshes == 1

\* the segment lists of the orders whose steps are executed: none, one or
\* two segments; the auto-filled cylinder makes up to three
ExecuteSegments ==
    { <<>>,
      <<Cylinder(1000, 0)>>,
      <<Frustrum(800, 0, 600)>>,
      <<Cylinder(1000, 0), Frustrum(800, 0, 600)>>,
      <<Frustrum(800, 0, 600), Cylinder(1000, 0)>> }

\* the orders: the specs among these the validator accepts
ExecuteOrders ==
    { s \in { PipeSpec(len, 1000, segs) :
                len \in {1800, 6000}, segs \in ExecuteSegments } :
        validatePipeSpec(s).valid }

(* SpecExecute: the steps of an order are given to the controller and      *)
(* executed by executeAllSteps; stopExecution is called at any time.        *)
NextExecute ==
    \/ \E s \in ExecuteOrders : setSteps(s)
    \/ executeAllSteps(MaxExecuteMeshes)
    \/ stopExecution
    \/ FetchPhase
    \/ CutPhase
    \/ BendPhase
    \/ PressPhase
    \/ WeldSeamPhase
    \/ StorePhase
    \/ SectionsPhase

SpecExecute == Init /\ [][NextExecute]_vars

-----------------------------------------------------------------------------
(* Properties of the pure functions, checked under SpecPipe *)

Did(f) == f \in called

\* the running diameter entering declared segment i (1-based): the
\* bottomDiameter of the last frustrum before i that sets one, else the
\* initial diameter
DiameterEntering(s, i) ==
    LET setters == { k \in 1..(i - 1) :
                       /\ k <= Len(s.segments)
                       /\ s.segments[k].type = "frustrum"
                       /\ s.segments[k].bottomDiameter # 0 }
    IN  IF setters = {} THEN s.initialDiameter
        ELSE s.segments[CHOOSE k \in setters : \A j \in setters : j <= k].bottomDiameter

\* C1: breakdownPipeSpec returns 4*S + (S-1) steps for S > 1 resolved
\* segments, 4 steps for S = 1 and no step for S = 0.
C1_StepCount ==
    Did("breakdownPipeSpec") =>
        LET S == Len(autoFillSegments(spec))
        IN  Len(steps) = IF S > 1 THEN 4 * S + (S - 1)
                         ELSE IF S = 1 THEN 4 ELSE 0

C1_Witness ==
    /\ Did("breakdownPipeSpec")
    /\ Len(spec.segments) = 1
    /\ Len(autoFillSegments(spec)) = 2
    /\ Len(steps) = 9

\* C2: when the declared heights sum to at most totalLength, the heights
\* of the auto-filled list sum to L with 0 <= totalLength - L <
\* minSegmentHeight.
C2_AutoFillRemainder ==
    (Did("autoFillSegments") /\ SumHeights(spec.segments) <= spec.totalLength) =>
        LET L == SumHeights(filled)
        IN  /\ 0 <= spec.totalLength - L
            /\ spec.totalLength - L < CONSTRAINTS.minSegmentHeight

C2_Witness ==
    /\ Did("autoFillSegments")
    /\ Len(spec.segments) > 0
    /\ SumHeights(spec.segments) <= spec.totalLength
    /\ Len(filled) > Len(spec.segments)
    /\ spec.totalLength - SumHeights(filled) > 0

\* C3: every auto-filled cylinder, and the bend step made for it, carries
\* the bottomDiameter of the last declared frustrum that sets one, and
\* initialDiameter only when no declared frustrum sets one.
C3_DiameterThreading ==
    LET n   == Len(spec.segments)
        dia == DiameterEntering(spec, n + 1)
    IN  /\ Did("autoFillSegments") =>
              \A i \in (n + 1)..Len(filled) :
                  filled[i].type = "cylinder" /\ filled[i].diameter = dia
        /\ Did("breakdownPipeSpec") =>
              \A k \in 1..Len(steps) :
                  (steps[k].action = "bend_cylinder" /\ steps[k].segmentIndex >= n)
                      => steps[k].params.diameter = dia

C3_Witness ==
    /\ Did("autoFillSegments") /\ Did("breakdownPipeSpec")
    /\ spec.segments = <<Frustrum(800, spec.initialDiameter, 800)>>
    /\ spec.initialDiameter = 400
    /\ Len(filled) = 2
    /\ filled[2].diameter = 800
    /\ \E k \in 1..Len(steps) :
          /\ steps[k].action = "bend_cylinder"
          /\ steps[k].segmentIndex = 1
          /\ steps[k].params.diameter = 800

HasIssue(codes, segment) ==
    \E k \in 1..Len(validation.errors) :
        /\ validation.errors[k].code \in codes
        /\ validation.errors[k].segment = segment

Outside(x, lo, hi) == x < lo \/ x > hi

\* C4: every bound of CONSTRAINTS is inclusive in validatePipeSpec: a
\* checked quantity gets an error exactly when it lies strictly outside
\* its bounds, and any error makes the result invalid.
C4_BoundsInclusive ==
    Did("validatePipeSpec") =>
      LET C == CONSTRAINTS
          lengthBad   == Outside(spec.totalLength, C.minTotalLength, C.maxTotalLength)
          diameterBad == Outside(spec.initialDiameter, C.rollerDiameterMin,
                                 C.rollerDiameterMax)
      IN
      /\ HasIssue({"total_length_positive", "total_length_min",
                   "total_length_max"}, 0) <=> lengthBad
      /\ HasIssue({"initial_diameter_required", "initial_diameter_min",
                   "initial_diameter_max"}, 0) <=> diameterBad
      /\ \A i \in 1..Len(spec.segments) :
           LET seg == spec.segments[i]
               top == DiameterEntering(spec, i)
               bottom == OrElse(seg.bottomDiameter, top)
           IN  IF seg.type = "cylinder"
               THEN /\ HasIssue({"cylinder_height_min"}, i)
                         <=> seg.height < C.minSegmentHeight
                    /\ HasIssue({"cylinder_height_max"}, i)
                         <=> seg.height > C.rollerHeightMax
               ELSE /\ HasIssue({"top_radius_range"}, i)
                         <=> Outside(top, 2 * C.frustrumTopRadiusMin,
                                     2 * C.frustrumTopRadiusMax)
                    /\ HasIssue({"bottom_radius_range"}, i)
                         <=> Outside(bottom, 2 * C.frustrumBottomRadiusMin,
                                     2 * C.frustrumBottomRadiusMax)
                    /\ HasIssue({"frustrum_height_min"}, i)
                         <=> seg.height < C.frustrumHeightMin
                    /\ HasIssue({"frustrum_height_max"}, i)
                         <=> seg.height > C.frustrumHeightMax
      /\ validation.valid <=> Len(validation.errors) = 0

\* every checked quantity sits exactly on a bound and the spec is valid
C4_Witness ==
    /\ Did("validatePipeSpec")
    /\ spec.totalLength = CONSTRAINTS.minTotalLength
    /\ spec.initialDiameter = 2 * CONSTRAINTS.frustrumTopRadiusMin
    /\ Len(spec.segments) = 1
    /\ spec.segments[1].type = "frustrum"
    /\ spec.segments[1].height = CONSTRAINTS.frustrumHeightMin
    /\ spec.segments[1].bottomDiameter = 2 * CONSTRAINTS.frustrumBottomRadiusMin
    /\ validation.valid

-----------------------------------------------------------------------------
(* Properties of the form, checked under SpecForm *)

\* C5: an order whose validation result contains at least one error is never
\* decomposed: every spec handleBuildPipe (and with it breakdownPipeSpec) was
\* ever called on validates without errors, steps exist only as the
\* decomposition of such an order, and the planner was contacted only for one.
C5_InvalidOrderNotDecomposed ==
    /\ order # <<>> => validatePipeSpec(order[1]).errors = <<>>
    /\ steps # <<>> => order # <<>> /\ steps = breakdownPipeSpec(order[1])
    /\ orequests > 0 => order # <<>>

\* an order with an error was submitted on a fresh view and nothing happened
C5_Witness ==
    /\ submit = "rejected"
    /\ validation.errors # <<>>
    /\ ~isBuilding
    /\ order = <<>>
    /\ steps = <<>>
    /\ orequests = 0

-----------------------------------------------------------------------------
(* Properties of the worker loop and the factory, checked under SpecWorker *)

PickUpTools == {"pickUpSheet", "pickUpWorkpiece"}

PickUpSuccessTexts ==
    {fetchSheetResult} \cup { pickUpFromResult(m) : m \in ToolMachineIds }

\* C6: when a pick-up (pickUpSheet / pickUpWorkpiece) is resolved for the
\* transporter while it carries a workpiece, the result of the call is an error
\* (not the text of a successful pick-up) and the factory's workpiece
\* reference is the same after the call as before.
C6_SecondPickUpRejected ==
    [][ ( /\ wpc = "calls"
          /\ workerId = 0
          /\ carriedMesh[0] # 0
          /\ wdone' = wdone + 1
          /\ wlast'.name \in PickUpTools )
        => ( /\ wlast'.response \notin PickUpSuccessTexts
             /\ workpiece' = workpiece ) ]_vars

ReportTexts == {"reportTaskComplete", "reportProblem"}

\* C10: reportTaskComplete / reportProblem ends the session at that call with
\* its payload as the result: a report never becomes a tool result of the
\* batch; the step that resolves it returns from runWorkerTask without
\* touching the factory, and once runWorkerTask has returned nothing is
\* executed against the factory and no request is sent to the service until
\* the caller has taken the result.
C10_ReportEndsSession ==
    /\ [](/\ wlast.name \notin ReportTexts
          /\ wend = "complete" =>
                /\ wpc = "returned"
                /\ wresult = (IF wtext # "" THEN wtext ELSE "Task completed")
          /\ wend = "problem" =>
                /\ wpc = "returned"
                /\ wresult = "Worker reported problem: " \o wtext)
    /\ [][ /\ wend' \in {"complete", "problem"}
              => UNCHANGED factoryVars /\ wpc' = "returned"
           /\ wpc = "returned"
              => UNCHANGED factoryVars /\ wpc' \in {"returned", "none"} ]_vars

\* a session ended by reportTaskComplete with a call of the batch left behind
\* it, after an earlier call had changed the factory
C10_Witness ==
    /\ wend = "complete"
    /\ wpc = "returned"
    /\ wskipped >= 1
    /\ workpiece # 0

-----------------------------------------------------------------------------
(* Properties of the planner and worker loops, checked under Spec *)

\* C7: a session the service never ends (no report, final text or fatal
\* error) resolves exactly WORKER_MAX_ITERATIONS turns: the loop variable
\* stays below the cap while the session runs, the session times out exactly
\* when the response to its request number WORKER_MAX_ITERATIONS + 1 arrives
\* after turns 0 .. WORKER_MAX_ITERATIONS - 1, and at that point it cannot go
\* on or end in another way (unless the fetch throws); the result is the
\* timed-out text.
C7_IterationCap ==
    /\ [](/\ iteration < WORKER_MAX_ITERATIONS
          /\ wrequests <= WORKER_MAX_ITERATIONS + 1
          /\ wend = "timeout" =>
                /\ wpc = "returned"
                /\ wresult = "Worker task timed out (max iterations)")
    /\ [][ /\ ( wend = "" /\ wend' = "timeout" )
              => /\ wpc = "await"
                 /\ wreq # "task"
                 /\ iteration = WORKER_MAX_ITERATIONS - 1
                 /\ wrequests = WORKER_MAX_ITERATIONS + 1
           /\ ( /\ wpc = "await"
                /\ wreq # "task"
                /\ iteration = WORKER_MAX_ITERATIONS - 1
                /\ wpc' # "await" )
              => wend' \in {"timeout", "thrown"} ]_vars

\* a dispatched session that timed out
C7_Witness ==
    /\ opc = "worker"
    /\ wpc = "returned"
    /\ wend = "timeout"

\* C8: when a dispatched worker session ends because the iteration cap was
\* exceeded, the step the dispatch refers to is marked failed and the planner
\* loop goes on (to the next call of the batch or to sending the results).
C8_TimeoutMarksStepFailed ==
    [][ ( /\ opc = "worker"
          /\ wpc = "returned"
          /\ wend = "timeout"
          /\ opc' # "worker" )
        => ( /\ opc' \in {"calls", "await"}
             /\ \A k \in DOMAIN steps :
                   steps[k].id = ostep => steps'[k].status = "failed" ) ]_vars

FailureLanguage(text) == Includes(text, "problem") \/ Includes(text, "error")

\* C9: a dispatchWorkerTask call sets the step with the given id to
\* in_progress with the given workerId in the step that starts the worker
\* session (first request sent, no turn resolved); when the session returns
\* the step becomes failed if the returned report contains "problem" or
\* "error", which every reported problem, fatal error and exception does, and
\* completed otherwise; both steps leave every other step as it was.
C9_DispatchMarksStep ==
    [][ /\ ( opc = "calls" /\ opc' = "worker" )
           => /\ wpc' = "await" /\ wrequests' = 1 /\ iteration' = 0
              /\ DOMAIN steps' = DOMAIN steps
              /\ \A k \in DOMAIN steps :
                    IF steps[k].id = ostep'
                    THEN steps'[k] = [steps[k] EXCEPT !.status = "in_progress",
                                                      !.workerId = workerId']
                    ELSE steps'[k] = steps[k]
        /\ ( opc = "worker" /\ opc' # "worker" )
           => /\ DOMAIN steps' = DOMAIN steps
              /\ \A k \in DOMAIN steps :
                    IF steps[k].id = ostep
                    THEN /\ steps'[k] =
                              [steps[k] EXCEPT !.status =
                                  IF FailureLanguage(wresult)
                                  THEN "failed" ELSE "completed"]
                         /\ wend \in {"problem", "error", "thrown"}
                               => steps'[k].status = "failed"
                         /\ steps[k].status = "in_progress"
                    ELSE steps'[k] = steps[k] ]_vars

\* the second call of a batch was a dispatch of step 1 to worker 2 that has
\* returned and failed; every other step is still pending
C9_Witness ==
    /\ opc \in {"calls", "await"}
    /\ odone = 2
    /\ olast.name = "dispatchWorkerTask"
    /\ \E k \in DOMAIN steps :
          /\ steps[k].id = 1
          /\ steps[k].status = "failed"
          /\ steps[k].workerId = 2
          /\ \A i \in DOMAIN steps \ {k} :
                steps[i].status = "pending" /\ steps[i].workerId = NoWorker

-----------------------------------------------------------------------------
\* C11: when the planner's service answers a request with a rate-limit
\* error, the loop re-submits the same pending request: the request sent
\* after the wait has the body (the message, or the bundle of tool results)
\* of the request the error answered.
C11_PlannerRetrySameRequest ==
    [][ (opc = "await" /\ opc' = "await" /\ orequests' = orequests + 1)
            => (oreq' = oreq /\ odone' = odone /\ olast' = olast) ]_vars

\* C12: a rate-limit error inside a worker session is recovered by
\* re-sending the identical request: the request sent after the wait has
\* the body (the task, or the bundle of tool results) of the request the
\* error answered.
C12_WorkerRetrySameRequest ==
    [][ (wpc = "await" /\ wpc' = "await" /\ wrequests' = wrequests + 1)
            => (wreq' = wreq /\ wdone' = wdone /\ wlast' = wlast) ]_vars

\* C13: once reportManufacturingComplete has been resolved the dispatch
\* loop terminates: the loop resolves no further call and starts no worker
\* session after it.
C13_CompleteEndsLoop ==
    [][ olast.name = "reportManufacturingComplete"
            => (odone' # odone + 1 /\ opc' # "worker") ]_vars

\* C14: during one run at most one worker session is active and at most one
\* step is in_progress: a session exists only while a dispatch awaits it,
\* the step in progress is the step of that dispatch, held by the worker of
\* that session, and a dispatch starts only when no session exists, also
\* for the second dispatch of a batch.
InProgress == {k \in DOMAIN steps : steps[k].status = "in_progress"}

OperateTool(machineId) ==
    IF machineId = "roller" THEN "operateRoller" ELSE "operatePress"

C15_OperateNeedsParams ==
    [][ \A machineId \in {"roller", "press"} :
          (/\ wpc = "calls"
           /\ wdone' = wdone + 1
           /\ wlast'.name = OperateTool(machineId)
           /\ machineId \notin configured)
            => (/\ wlast'.response
                      # operateMachineWithWorkerResult(machineId)
                /\ geometry' = geometry) ]_vars

\* C16: storeInRack returns an error result when every cradle of the rack
\* is occupied, and the carried workpiece stays with the worker and stays
\* the live workpiece.
C16_FullRackRejectsStore ==
    [][ (/\ wpc = "calls"
         /\ wdone' = wdone + 1
         /\ wlast'.name = "storeInRack"
         /\ nextCradleIndex >= slotCount
         /\ carriedMesh[workerId] # 0)
            => (/\ wlast'.response # storeInRackFromWorkerResult
                /\ carriedMesh' = carriedMesh
                /\ workpiece' = workpiece) ]_vars

\* C17: for S > 1 resolved segments the last S - 1 steps of the
\* decomposition are the weld_sections steps and every other step precedes
\* them; the i-th of them joins segments i - 1 and i. For totalLength 10 m
\* and no declared segment the 9th step joins segments 0 and 1.
C17_JoinStepsLast ==
    Did("breakdownPipeSpec") =>
        LET S == Len(autoFillSegments(spec))
            n == Len(steps)
        IN  /\ S > 1 =>
                /\ \A k \in 1..n :
                      (steps[k].action = "weld_sections") <=> (k > n - (S - 1))
                /\ \A i \in 1..(S - 1) :
                      steps[n - (S - 1) + i].params
                          = [sectionA |-> i - 1, sectionB |-> i]
            /\ (spec.totalLength = 10000 /\ spec.segments = <<>>) =>
                /\ n = 9
                /\ steps[9].action = "weld_sections"
                /\ steps[9].params = [sectionA |-> 0, sectionB |-> 1]

\* three resolved segments: two declared, one filled in, two joins
C17_Witness ==
    /\ Did("breakdownPipeSpec")
    /\ Len(spec.segments) = 2
    /\ Len(autoFillSegments(spec)) = 3
    /\ Len(steps) = 14
    /\ steps[13].params = [sectionA |-> 0, sectionB |-> 1]
    /\ steps[14].params = [sectionA |-> 1, sectionB |-> 2]

\* the step of the given action made for resolved segment i (1-based)
StepsOf(action, i) ==
    { k \in 1..Len(steps) :
        steps[k].action = action /\ steps[k].segmentIndex = i - 1 }

\* C18: the decomposer threads the running diameter through the resolved
\* segments: the bend step of a cylinder has the running diameter entering
\* it; the press step of a frustrum has topRadius half the running diameter
\* entering it, bottomRadius half its bottomDiameter (where it declares
\* one) and frustrumHeight its height; the running diameter entering a
\* segment is the bottomDiameter of the last frustrum before it.
C18_BreakdownThreading ==
    Did("breakdownPipeSpec") =>
        LET resolved == [spec EXCEPT !.segments = autoFillSegments(spec)]
        IN  \A i \in 1..Len(resolved.segments) :
              LET seg == resolved.segments[i]
                  dia == DiameterEntering(resolved, i)
              IN  /\ seg.type = "cylinder" =>
                        /\ Cardinality(StepsOf("bend_cylinder", i)) = 1
                        /\ \A k \in StepsOf("bend_cylinder", i) :
                              steps[k].params
                                  = [diameter |-> dia, height |-> seg.height]
                  /\ seg.type = "frustrum" =>
                        /\ Cardinality(StepsOf("press_frustrum", i)) = 1
                        /\ \A k \in StepsOf("press_frustrum", i) :
                              /\ steps[k].params.topRadius = dia \div 2
                              /\ seg.bottomDiameter # 0 =>
                                    steps[k].params.bottomRadius
                                        = seg.bottomDiameter \div 2
                              /\ steps[k].params.frustrumHeight = seg.height

\* the scenario of the specification: a frustrum {height 0.8, bottomDiameter
\* 0.6} after initialDiameter 1.0, followed by a second frustrum
C18_Witness ==
    /\ Did("breakdownPipeSpec")
    /\ spec.initialDiameter = 1000
    /\ Len(spec.segments) = 2
    /\ spec.segments[1].type = "frustrum"
    /\ spec.segments[1].height = 800
    /\ spec.segments[1].bottomDiameter = 600
    /\ spec.segments[2].type = "frustrum"
    /\ \E k \in StepsOf("press_frustrum", 1) :
          steps[k].params
              = [topRadius |-> 500, bottomRadius |-> 300,
                 frustrumHeight |-> 800]
    /\ \E k \in StepsOf("press_frustrum", 2) :
          steps[k].params.topRadius = 300

\* the tool names the switch of runWorkerTask has a case for
WorkerToolNames ==
    {"walkToMachine", "captureVision", "getWorkerStatus", "pickUpSheet",
     "pickUpWorkpiece", "placeWorkpiece", "storeInRack", "operateCutter",
     "setRollerParams", "operateRoller", "setPressParams", "operatePress",
     "operateWelder", "reportTaskComplete", "reportProblem"}

\* the tool names the switch of executeOrchestratorToolCalls has a case for
PlannerToolNames ==
    {"planManufacturing", "dispatchWorkerTask", "getFactoryStatus",
     "reportManufacturingComplete"}

\* C19: a call of a tool the worker loop or the planner loop does not know
\* is resolved with the result "Unknown tool: <name>"; the loop goes on
\* with the next call of the batch, or sends the results after the last
\* one, and neither the steps nor the factory change.
C19_UnknownToolSoftError ==
    [][ /\ (/\ wpc = "calls"
            /\ wdone' = wdone + 1
            /\ wlast'.name \notin WorkerToolNames)
              => (/\ wlast'.response = "Unknown tool: " \o wlast'.name
                  /\ wend' = ""
                  /\ wpc' = (IF wdone' < wlen THEN "calls" ELSE "await")
                  /\ wdone' = wlen => wreq' = "toolResults"
                  /\ UNCHANGED <<steps, factoryVars>>)
        /\ (/\ opc = "calls"
            /\ odone' = odone + 1
            /\ olast'.name \notin PlannerToolNames)
              => (/\ olast'.response = "Unknown tool: " \o olast'.name
                  /\ isBuilding'
                  /\ opc' = (IF odone' < olen THEN "calls" ELSE "await")
                  /\ odone' = olen => oreq' = "toolResults"
                  /\ UNCHANGED <<steps, factoryVars>>) ]_vars

\* the planner resolved an unknown tool and went on to the dispatch after
\* it; the worker resolved two calls, the last one an unknown tool, and
\* sent the results
C19_Witness ==
    /\ opc = "worker"
    /\ olen = 2
    /\ odone = 1
    /\ olast = [name |-> "inspectFactory",
                response |-> "Unknown tool: inspectFactory"]
    /\ wpc = "await"
    /\ wreq = "toolResults"
    /\ wdone = 2
    /\ wlast = [name |-> "inspectWeld",
                response |-> "Unknown tool: inspectWeld"]

ResetRoutes == {"/api/chat/reset", "/api/orchestrator/reset"}

\* the session map a route works on
MapOf(route, chatMap, orchestratorMap) ==
    IF route \in {"/api/chat", "/api/chat/reset"} THEN chatMap
    ELSE orchestratorMap

\* C20: a reset request succeeds and leaves no session under its id; it
\* leaves every session of another id, and the other map, as they were,
\* whether or not the id had a session; a session made for an id that has
\* none (never created, or reset) starts from a null chat and an empty
\* history, so that after the request its history holds at most the
\* message just sent.
C20_ResetRemovesSession ==
    /\ [](http.route \in ResetRoutes =>
            /\ http.status = 200
            /\ http.sessionId
                  \notin DOMAIN MapOf(http.route, sessions,
                                      orchestratorSessions))
    /\ [][ /\ http'.route \in ResetRoutes =>
                LET old == MapOf(http'.route, sessions, orchestratorSessions)
                    new == MapOf(http'.route, sessions',
                                 orchestratorSessions')
                IN  /\ DOMAIN new = DOMAIN old \ {http'.sessionId}
                    /\ \A id \in DOMAIN new : new[id] = old[id]
                    /\ (http'.route = "/api/chat/reset"
                            => UNCHANGED orchestratorSessions)
                    /\ (http'.route = "/api/orchestrator/reset"
                            => UNCHANGED sessions)
           /\ \A id \in SessionIdInputs :
                /\ (id \notin DOMAIN sessions /\ id \in DOMAIN sessions') =>
                      sessions'[id] \in
                          {NewSession}
                          \cup {[chat |-> TRUE, history |-> <<>>]}
                          \cup {[chat |-> TRUE, history |-> <<body>>] :
                                   body \in BodyInputs \ {""}}
                /\ (/\ id \notin DOMAIN orchestratorSessions
                    /\ id \in DOMAIN orchestratorSessions') =>
                      orchestratorSessions'[id] \in
                          {NewSession}
                          \cup {[chat |-> TRUE, history |-> <<>>]}
                          \cup {[chat |-> TRUE, history |-> <<body>>] :
                                   body \in BodyInputs \ {""}} ]_vars

\* session s1 of the orchestrator has just been reset; session s2, with a
\* message in its history, and chat session s1 are still there
C20_Witness ==
    /\ http = [route |-> "/api/orchestrator/reset", sessionId |-> "s1",
               status |-> 200]
    /\ DOMAIN orchestratorSessions = {"s2"}
    /\ Len(orchestratorSessions["s2"].history) = 1
    /\ "s1" \in DOMAIN sessions
    /\ Len(sessions["s1"].history) = 1

-----------------------------------------------------------------------------
\* C21: no dispatchWorkerTask call is accepted (no step set to in_progress,
\* no worker session started) before the planner has issued a
\* planManufacturing call in the same run: while the calls of the planner's
\* first response are resolved and none of the calls resolved so far is
\* planManufacturing, no worker session starts.
C21_PlanBeforeDispatch ==
    [][ ( /\ opc = "calls"
          /\ orequests = 1
          /\ \/ odone = 0
             \/ odone = 1 /\ olast.name # "planManufacturing" )
            => opc' # "worker" ]_vars

-----------------------------------------------------------------------------
\* the fetch, cut, form and weld-seam steps
SegmentActions ==
    {"fetch_sheet", "cut_sheet", "bend_cylinder", "press_frustrum",
     "weld_seam"}

\* C22: no weld-join (weld_sections) step becomes in_progress while a
\* fetch, cut, form or weld-seam step of any segment of the same order is
\* still pending or in_progress.
C22_JoinAfterAllSegments ==
    [][ \A k \in DOMAIN steps :
            ( /\ Len(steps') = Len(steps)
              /\ steps[k].action = "weld_sections"
              /\ steps[k].status # "in_progress"
              /\ steps'[k].status = "in_progress" )
            => \A m \in DOMAIN steps' :
                   steps'[m].action \in SegmentActions
                       => steps'[m].status \notin {"pending", "in_progress"}
      ]_vars

\* the pairs <<earlier, later>> of the decomposition order of a segment
DecompositionOrder ==
    { <<"fetch_sheet", "cut_sheet">>,
      <<"cut_sheet", "bend_cylinder">>, <<"cut_sheet", "press_frustrum">>,
      <<"bend_cylinder", "weld_seam">>, <<"press_frustrum", "weld_seam">> }

\* C23: within one order the steps of each segment are executed in
\* decomposition order: when a cut step becomes in_progress the fetch step
\* of its segment is completed, when a form step does the cut step is, and
\* when a weld-seam step does the form step is.
C23_DecompositionOrder ==
    [][ \A k, m \in DOMAIN steps :
            ( /\ Len(steps') = Len(steps)
              /\ steps[k].segmentIndex = steps[m].segmentIndex
              /\ <<steps[m].action, steps[k].action>> \in DecompositionOrder
              /\ steps[k].status # "in_progress"
              /\ steps'[k].status = "in_progress" )
            => steps'[m].status = "completed"
      ]_vars

\* C24: every change of a worker's status is one of idle->moving,
\* moving->idle, idle->operating, operating->idle, idle->carrying,
\* carrying->idle; in particular a worker that has picked up a workpiece
\* keeps status carrying until it places or stores it: a worker holding a
\* workpiece has status carrying.
C24_CarryingUntilPlaced ==
    \A w \in WorkerIds : carriedMesh[w] # 0 => workerStatus[w] = "carrying"

\* workerAI.ts lines 86-230, 339-354: the tools getToolsForWorker adds to
\* the common tools for a worker
RoleTools(w) ==
    CASE w = 0 -> {"pickUpSheet", "pickUpWorkpiece", "placeWorkpiece",
                   "storeInRack"}
      [] w = 1 -> {"operateCutter"}
      [] w = 2 -> {"setRollerParams", "operateRoller"}
      [] w = 3 -> {"setPressParams", "operatePress"}
      [] w = 4 -> {"operateWelder"}
      [] OTHER -> {}

\* C25: a capability outside a worker's role is never executed against the
\* factory state: when a session resolves a call of a tool that belongs to
\* another worker's role (a pick-up, place or store in an operator's
\* session, an operate or configure in the transporter's session or of
\* another operator's station), the workpiece, its geometry, the machine
\* parameters and the rack are unchanged.
C25_RoleScopedTools ==
    [][ ( /\ wpc = "calls"
          /\ wdone' = wdone + 1
          /\ wlast'.name \in UNION {RoleTools(w) : w \in WorkerIds}
          /\ wlast'.name \notin RoleTools(workerId) )
            => UNCHANGED <<workpiece, geometry, machineParams, storedPipes,
                           nextCradleIndex>> ]_vars

\* C26: every worker session is torn down on terminal outcome: on each way
\* runWorkerTask returns (completion report, problem report, final text,
\* non-retryable error, iteration cap) a reset of the session has been
\* requested.
C26_SessionReset ==
    (wpc = "returned"
        /\ wend \in {"complete", "problem", "text", "error", "timeout"})
        => wreset

\* C27: within one breakdownPipeSpec call the step ids are unique and
\* strictly increasing (step-1, step-2, ...), and the counter restarts at
\* every call, so successive calls return the same id sequence: whichever
\* call made them, the k-th step of the list has id step-k.
C27_StepIds ==
    \A k \in DOMAIN steps : steps[k].id = k

\* steps of a later call: a sheet has been fetched by a run on earlier
\* steps, and the steps at hand, of three segments, are all pending
C27_Witness ==
    /\ meshCount > 0
    /\ Len(steps) > 12
    /\ \A k \in DOMAIN steps : steps[k].status = "pending"

\* C28: after stopExecution is called while executeAllSteps is processing
\* segment k, no step of a segment after k ever leaves pending, while the
\* fetch, cut, form and weld-seam work under way for segment k is not
\* interrupted and still reaches completed: while a call runs with
\* isRunning reset, the steps of the later segments do not change, and when
\* that call returns the fetch, cut, form and weld-seam steps of segment k
\* are completed.
C28_StopAfterSegment ==
    [][ (epc # "idle" /\ ~isRunning) =>
            /\ \A m \in DOMAIN steps :
                  steps[m].segmentIndex > segIdx =>
                      /\ steps[m].status = "pending"
                      /\ steps'[m] = steps[m]
            /\ epc' = "idle" =>
                  \A m \in DOMAIN steps :
                      ( /\ steps[m].segmentIndex = segIdx
                        /\ steps[m].action \in SegmentActions )
                      => steps'[m].status = "completed"
      ]_vars

\* a call stopped in segment 0 of an order of several segments has returned
C28_Witness ==
    /\ epc = "idle"
    /\ \E k, m \in DOMAIN steps :
          /\ steps[k].segmentIndex = 0
          /\ steps[k].action = "weld_seam"
          /\ steps[k].status = "completed"
          /\ steps[m].segmentIndex = 1
          /\ steps[m].action = "fetch_sheet"
          /\ steps[m].status = "pending"

\* C29: for every spec validatePipeSpec accepts, every bend-cylinder step
\* of its breakdown has diameter within [rollerDiameterMin,
\* rollerDiameterMax] and height within [minSegmentHeight,
\* rollerHeightMax], including the cylinders after a frustrum and the
\* auto-filled cylinders.
C29_BendWithinRollerRange ==
    (Did("validatePipeSpec") /\ validation.valid /\ Did("breakdownPipeSpec"))
        => \A k \in DOMAIN steps :
              steps[k].action = "bend_cylinder" =>
                  /\ steps[k].params.diameter >= CONSTRAINTS.rollerDiameterMin
                  /\ steps[k].params.diameter <= CONSTRAINTS.rollerDiameterMax
                  /\ steps[k].params.height >= CONSTRAINTS.minSegmentHeight
                  /\ steps[k].params.height <= CONSTRAINTS.rollerHeightMax

\* the steps of a worker session: a response of /api/worker is handled, the
\* loop test fails, or a call of the batch is resolved
WorkerStep ==
    \/ WorkerResponses(NoTurnCap)
    \/ WorkerTimeout
    \/ ReportTools

(* SpecLive: the planner dispatches a step, one call per batch, and the    *)
(* worker session does whatever Spec lets it do. A session that can go on  *)
(* does go on, and the dispatch that awaits a returned session resumes:    *)
(* every request to the worker's reasoning service is answered and the     *)
(* event loop runs each continuation that is ready.                        *)
NextLive ==
    \/ HandleSubmit
    \/ PlannerText
    \/ PlannerToolCalls(MaxPlannerRequests, 1)
    \/ \E w \in DispatchWorkerIds, id \in StepIds : PlannerDispatch(w, id)
    \/ DispatchReturn
    \/ WorkerStep

SpecLive ==
    Init /\ [][NextLive]_vars /\ WF_vars(WorkerStep) /\ WF_vars(DispatchReturn)

\* the step of the id has the status
StepHas(id, status) ==
    \E k \in DOMAIN steps : steps[k].id = id /\ steps[k].status = status

\* C30: every step a dispatch sets to in_progress eventually becomes
\* completed or failed, provided each reasoning-service request and factory
\* operation returns; whatever the worker session does, no step is left
\* in_progress when the run ends.
C30_InProgressEnds ==
    /\ \A id \in StepIds :
          StepHas(id, "in_progress")
              ~> (StepHas(id, "completed") \/ StepHas(id, "failed"))
    /\ [](~isBuilding => InProgress = {})

\* a run has ended after a dispatch of step 1 whose session failed
C30_Witness ==
    /\ ~isBuilding
    /\ opc = "idle"
    /\ wpc = "none"
    /\ StepHas(1, "failed")

====
